---- MODULE Spec2Model ----
(***************************************************************************)
(* Director's Timeline: the film scene-timeline editor                     *)
(* (FilmTimelineCanvas) and the music waveform editor (WaveformCanvas),    *)
(* with the pure helpers of lib/time.ts.                                   *)
(*                                                                         *)
(* JavaScript numbers are modelled as exact rationals <<n, d>> (d > 0,     *)
(* lowest terms); d = 0 stands for the non-finite values (+-Infinity, NaN).*)
(* Pixel coordinates are CSS pixels relative to the canvas' top-left       *)
(* corner (getBoundingClientRect is taken to be at the origin).            *)
(***************************************************************************)
EXTENDS Integers, Sequences, FiniteSets, TLC

VARIABLES page, film, music, calc, ev, budget

vars == <<page, film, music, calc, ev, budget>>

(* null: of an id, of an object, of a number *)
NoId == 0
NoRec == [nil |-> TRUE]
NoNum == <<>>

(* ------------------------- rational arithmetic ------------------------- *)
Abs(i) == IF i < 0 THEN -i ELSE i

RECURSIVE GCD(_, _)
GCD(a, b) == IF b = 0 THEN a ELSE GCD(b, a % b)

Q(n, d) ==
  IF d = 0 THEN <<(IF n > 0 THEN 1 ELSE IF n < 0 THEN -1 ELSE 0), 0>>
  ELSE LET g == GCD(Abs(n), Abs(d))
           s == IF d < 0 THEN -1 ELSE 1
       IN <<(s * n) \div g, (s * d) \div g>>

QI(i) == <<i, 1>>
Num(a) == a[1]
Den(a) == a[2]
IsFinite(a) == Den(a) # 0
QAdd(a, b) == Q(Num(a) * Den(b) + Num(b) * Den(a), Den(a) * Den(b))
QNeg(a) == <<-Num(a), Den(a)>>
QSub(a, b) == QAdd(a, QNeg(b))
QMul(a, b) == Q(Num(a) * Num(b), Den(a) * Den(b))
QDiv(a, b) ==
  IF Num(b) = 0 THEN Q(Num(a), 0)
  ELSE IF Num(b) < 0 THEN Q(-Num(a) * Den(b), Den(a) * (-Num(b)))
  ELSE Q(Num(a) * Den(b), Den(a) * Num(b))
QLt(a, b) == Num(a) * Den(b) < Num(b) * Den(a)
QLe(a, b) == Num(a) * Den(b) <= Num(b) * Den(a)
QGe(a, b) == QLe(b, a)
QGt(a, b) == QLt(b, a)
QMax(a, b) == IF QLt(a, b) THEN b ELSE a
QMin(a, b) == IF QLt(b, a) THEN b ELSE a
QAbs(a) == <<Abs(Num(a)), Den(a)>>
(* Math.floor and Math.round (round half up) of a finite number *)
MathFloor(a) == QI(Num(a) \div Den(a))
MathRound(a) == QI((2 * Num(a) + Den(a)) \div (2 * Den(a)))

Zero == QI(0)

(* ------------------------------ sequences ------------------------------ *)
Range(s) == {s[i] : i \in DOMAIN s}
SeqMap(Op(_), s) == [i \in DOMAIN s |-> Op(s[i])]
SeqFilter(Test(_), s) == SelectSeq(s, Test)
Last(s) == s[Len(s)]
Front(s) == SubSeq(s, 1, Len(s) - 1)
Find(Test(_), s) ==
  IF \E i \in DOMAIN s : Test(s[i])
  THEN s[CHOOSE i \in DOMAIN s : Test(s[i]) /\ \A j \in 1..(i - 1) : ~Test(s[j])]
  ELSE NoRec
(* Array.prototype.findLast-style scan used by the reverse hit-test loops *)
FindLast(Test(_), s) ==
  IF \E i \in DOMAIN s : Test(s[i])
  THEN s[CHOOSE i \in DOMAIN s : Test(s[i]) /\ \A j \in (i + 1)..Len(s) : ~Test(s[j])]
  ELSE NoRec

(* =========================== film editor ============================== *)
ROW_HEIGHT == 40
SCENE_MIN_SEC == 1
HANDLE_W == 8
Film_COLLAPSED_H == 22
FOOTER_H == 56
Film_TOGGLE_SIZE == 12
Film_TOGGLE_PAD == 4
Film_MIN_ZOOM == 1
Film_MAX_ZOOM == 500
DEFAULT_SNAP_ENABLED == TRUE
DEFAULT_SNAP_STEP == 1
NOTE_GAP_Y == 8
NOTE_DEFAULT_W == 180
NOTE_DEFAULT_H == 110
IMAGE_CARD_W == 180
IMAGE_CARD_H == 110
PALETTE_LEN == 8

(* cssToSec / secToCss of the component, on the state record f *)
cssToSec(f, xCss) == QDiv(QSub(xCss, f.panX), f.zoom)
secToCss(f, sec) == QAdd(QMul(sec, f.zoom), f.panX)

Film_clampZoom(z) == QMin(QI(Film_MAX_ZOOM), QMax(QI(Film_MIN_ZOOM), z))

applyZoomAbout_KeepPan(f, cursorXCss, nextZoom) ==
  <<Film_clampZoom(nextZoom), f.panX>>
(* the pair <<zoom, panX>> that applyZoomAbout stores *)
applyZoomAbout(f, cursorXCss, nextZoom) ==
  LET z == Film_clampZoom(nextZoom)
      worldUnderCursor == cssToSec(f, cursorXCss)
      nextPan == QSub(cursorXCss, QMul(worldUnderCursor, z))
  IN <<z, nextPan>>

roundToSnap(f, v) ==
  IF ~f.snapEnabled THEN v
  ELSE LET step == QMax(Q(1, 1000), f.snapStep)
       IN QMul(MathRound(QDiv(v, step)), step)

(* Array.prototype.sort is stable: equal keys keep their list order *)
SortRank(s, Lt(_, _), i) ==
  1 + Cardinality({j \in DOMAIN s :
        Lt(s[j], s[i]) \/ (~Lt(s[i], s[j]) /\ j < i)})
StableSort(s, Lt(_, _)) ==
  [k \in 1..Len(s) |-> s[CHOOSE i \in DOMAIN s : SortRank(s, Lt, i) = k]]

(* findIndex: 0-based index of the first match, -1 when there is none *)
findIndex(s, Test(_)) ==
  IF \E i \in DOMAIN s : Test(s[i])
  THEN (CHOOSE i \in DOMAIN s : Test(s[i]) /\ \A j \in 1..(i - 1) : ~Test(s[j])) - 1
  ELSE -1

ByPosition_Descending(a, b) == QLt(b.positionSec, a.positionSec)
ByPosition(a, b) == QLt(a.positionSec, b.positionSec)

(* scenesWithOrder: id -> newSceneNumber, as the useMemo derives it *)
newSceneNumber(scenes, s) ==
  LET sorted == StableSort(scenes, ByPosition)
      SameId(x) == x.id = s.id
  IN findIndex(sorted, SameId) + 1
scenesWithOrder(scenes) ==
  [i \in DOMAIN scenes |-> [id |-> scenes[i].id,
                            positionSec |-> scenes[i].positionSec,
                            newSceneNumber |-> newSceneNumber(scenes, scenes[i])]]

ByOrder(a, b) == a.order < b.order

(* notesByScene.get(sid) || [] : the scene's notes sorted by order,
   renumbered 0..n-1 *)
notesByScene(notes, sid) ==
  LET OfScene(n) == n.sceneId = sid
      sorted == StableSort(SelectSeq(notes, OfScene), ByOrder)
  IN [i \in DOMAIN sorted |-> [sorted[i] EXCEPT !.order = i - 1]]

sceneHeight(s) ==
  IF s.collapsed THEN Film_COLLAPSED_H ELSE ROW_HEIGHT - 6 + FOOTER_H

baseNotesY(scene) ==
  QAdd(QAdd(scene.yPx, QI(4)), QI(sceneHeight(scene) + NOTE_GAP_Y))

hasImageCard(s) == s.imageUrl /\ s.imageMeta # NoRec /\ ~s.collapsed

getImageRectCss(f, scene) ==
  [x |-> QAdd(secToCss(f, scene.positionSec), scene.imageMeta.relX),
   y |-> QAdd(baseNotesY(scene), scene.imageMeta.relY),
   w |-> scene.imageMeta.width, h |-> scene.imageMeta.height]

getSceneNotesStack(f, sid) ==
  LET IsSid(x) == x.id = sid
      s == Find(IsSid, f.scenes)
  IN IF s = NoRec THEN <<>>
     ELSE LET arr == notesByScene(f.notes, sid)
              yOffset == IF hasImageCard(s)
                         THEN QAdd(getImageRectCss(f, s).h, QI(NOTE_GAP_Y))
                         ELSE Zero
          IN [i \in DOMAIN arr |->
                [note |-> arr[i],
                 x |-> QAdd(secToCss(f, s.positionSec), arr[i].relX),
                 y |-> QAdd(QAdd(QAdd(baseNotesY(s), yOffset), arr[i].relY),
                            QI((i - 1) * (NOTE_DEFAULT_H + NOTE_GAP_Y))),
                 w |-> arr[i].width, h |-> arr[i].height, index |-> i - 1]]

InRect(x, y, left, top, w, h) ==
  /\ QGe(x, left) /\ QLe(x, QAdd(left, w))
  /\ QGe(y, top) /\ QLe(y, QAdd(top, h))

sceneContains(f, s, xCss, yCss) ==
  InRect(xCss, yCss, secToCss(f, s.positionSec), QAdd(s.yPx, QI(4)),
         QMul(s.lengthSec, f.zoom), QI(sceneHeight(s)))

(* hitSceneAt: the last scene of the list containing the point, with the
   region its x falls in; NoRec when no scene contains it *)
hitSceneAt(f, xCss, yCss) ==
  LET Hit(s) == sceneContains(f, s, xCss, yCss)
      s == FindLast(Hit, f.scenes)
  IN IF s = NoRec THEN NoRec
     ELSE LET left == secToCss(f, s.positionSec)
              width == QMul(s.lengthSec, f.zoom)
          IN [scene |-> s,
              region |->
                IF QLe(xCss, QAdd(left, QI(HANDLE_W))) THEN "resizeL"
                ELSE IF QGe(xCss, QSub(QAdd(left, width), QI(HANDLE_W)))
                     THEN "resizeR"
                ELSE "scene"]

hitChevron(f, s, xCss, yCss) ==
  InRect(xCss, yCss,
         QAdd(secToCss(f, s.positionSec), QI(Film_TOGGLE_PAD)),
         QAdd(QAdd(s.yPx, QI(4)), QI(6)),
         QI(Film_TOGGLE_SIZE), QI(Film_TOGGLE_SIZE))

(* hitNoteAt: scenes from last to first, each scene's stack from top to
   bottom; the first item containing the point *)
hitNoteAt_Never(f, xCss, yCss) == NoRec
noteItemHit(item, xCss, yCss) == InRect(xCss, yCss, item.x, item.y, item.w, item.h)
hitNoteAt(f, xCss, yCss) ==
  LET HasHit(s) == \E i \in DOMAIN getSceneNotesStack(f, s.id) :
                     noteItemHit(getSceneNotesStack(f, s.id)[i], xCss, yCss)
      s == FindLast(HasHit, f.scenes)
  IN IF s = NoRec THEN NoRec
     ELSE LET ItemHit(item) == noteItemHit(item, xCss, yCss)
          IN [scene |-> s,
              note |-> FindLast(ItemHit, getSceneNotesStack(f, s.id)).note]

hitImageAt(f, xCss, yCss) ==
  LET Hit(s) == /\ hasImageCard(s)
                /\ LET r == getImageRectCss(f, s)
                   IN InRect(xCss, yCss, r.x, r.y, r.w, r.h)
      s == FindLast(Hit, f.scenes)
  IN IF s = NoRec THEN NoRec ELSE [scene |-> s, meta |-> s.imageMeta]

rectsOverlap(ax, ay, aw, ah, bx, by, bw, bh) ==
  /\ QLt(ax, QAdd(bx, bw)) /\ QGt(QAdd(ax, aw), bx)
  /\ QLt(ay, QAdd(by, bh)) /\ QGt(QAdd(ay, ah), by)

ByOriginalNumber(a, b) == a.originalSceneNumber < b.originalSceneNumber

(* autoPlaceByOriginalNumber: the scene with the position it is given *)
autoPlaceByOriginalNumber(f, scene, others) ==
  LET gap == QI(1)
      all == StableSort(others, ByOriginalNumber)
      Before(s) == s.originalSceneNumber < scene.originalSceneNumber
      After(s) == s.originalSceneNumber > scene.originalSceneNumber
      prev == FindLast(Before, all)
      next == Find(After, all)
      prevEnd == QAdd(prev.positionSec, prev.lengthSec)
      candA == roundToSnap(f, QAdd(prevEnd, gap))
      candB == roundToSnap(f, QMax(Zero,
                 QSub(QSub(next.positionSec, scene.lengthSec), gap)))
      leftEdge == IF prev # NoRec THEN prevEnd ELSE Zero
      rightEdge == IF next # NoRec THEN next.positionSec
                   ELSE QAdd(leftEdge, QAdd(scene.lengthSec, QMul(QI(2), gap)))
      mid == roundToSnap(f, QMax(Zero,
               QDiv(QSub(QAdd(leftEdge, rightEdge), scene.lengthSec), QI(2))))
  IN IF prev = NoRec /\ next = NoRec
       THEN [scene EXCEPT !.positionSec = roundToSnap(f, scene.positionSec)]
     ELSE IF prev # NoRec /\
             (next = NoRec \/
              QLe(QAdd(candA, scene.lengthSec), QSub(next.positionSec, gap)))
       THEN [scene EXCEPT !.positionSec = candA]
     ELSE IF next # NoRec /\
             (prev = NoRec \/ QGe(candB, QAdd(prevEnd, gap)))
       THEN [scene EXCEPT !.positionSec = candB]
     ELSE [scene EXCEPT !.positionSec = mid]

pickColor(i) == i % PALETTE_LEN

(* ------------------------- film: component state ----------------------- *)
FilmInit ==
  [zoom |-> QI(120), panX |-> Zero, playheadSec |-> Zero,
   projectName |-> "Untitled Project",
   scenes |-> <<>>, notes |-> <<>>, history |-> <<>>,
   dragMode |-> "none", isMouseDown |-> FALSE,
   dragStart |-> [cx |-> Zero, cy |-> Zero],
   activeSceneId |-> NoId, sceneStartSnapshot |-> NoRec,
   activeNoteId |-> NoId, noteStartSnapshot |-> NoRec,
   activeImageSceneId |-> NoId, imageStartSnapshot |-> NoRec,
   selectedSceneId |-> NoId, selectedNoteId |-> NoId,
   selectedImageSceneId |-> NoId,
   modalSceneId |-> NoId,
   snapEnabled |-> DEFAULT_SNAP_ENABLED, snapStep |-> QI(DEFAULT_SNAP_STEP),
   reattachMode |-> FALSE,
   marquee |-> NoRec, multiSelIds |-> {},
   touchMode |-> "none", touchLast |-> NoRec, pinchStart |-> NoRec]

(* crypto.randomUUID(): an id no live object or reference carries *)
IdsOfScenes(scenes) == {scenes[i].id : i \in DOMAIN scenes}
IdsOfNotes(notes) ==
  {notes[i].id : i \in DOMAIN notes} \cup {notes[i].sceneId : i \in DOMAIN notes}
LiveIds(f) ==
  IdsOfScenes(f.scenes) \cup IdsOfNotes(f.notes)
  \cup UNION {IdsOfScenes(f.history[i].scenes) \cup IdsOfNotes(f.history[i].notes)
              : i \in DOMAIN f.history}
  \cup {f.activeSceneId, f.activeNoteId, f.activeImageSceneId,
        f.selectedSceneId, f.selectedNoteId, f.selectedImageSceneId,
        f.modalSceneId}
  \cup f.multiSelIds
randomUUID(f) ==
  CHOOSE n \in 1..(Cardinality(LiveIds(f)) + 1) :
    n \notin LiveIds(f) /\ \A m \in 1..(n - 1) : m \in LiveIds(f)

pushHistory(f) ==
  [f EXCEPT !.history = Append(@, [scenes |-> f.scenes, notes |-> f.notes])]

undo_ScenesOnly(f) ==
  IF Len(f.history) = 0 THEN f
  ELSE [f EXCEPT !.scenes = Last(f.history).scenes,
                 !.history = Front(f.history)]

undo(f) ==
  IF Len(f.history) = 0 THEN f
  ELSE [f EXCEPT !.scenes = Last(f.history).scenes,
                 !.notes = Last(f.history).notes,
                 !.history = Front(f.history)]

(* ---------------------------- film: scene ops -------------------------- *)
addScene(f) ==
  LET h == pushHistory(f)
      id == randomUUID(f)
      existing == {f.scenes[i].originalSceneNumber : i \in DOMAIN f.scenes}
      n0 == Len(f.scenes) + 1
      num == CHOOSE n \in n0..(n0 + Len(f.scenes)) :
               n \notin existing /\ \A m \in n0..(n - 1) : m \in existing
      newScene == [id |-> id, originalSceneNumber |-> num,
                   positionSec |-> roundToSnap(f, f.playheadSec),
                   lengthSec |-> QI(30), yPx |-> QI(8),
                   color |-> pickColor(Len(f.scenes)), collapsed |-> FALSE,
                   imageUrl |-> FALSE, imageMeta |-> NoRec]
      placed == autoPlaceByOriginalNumber(f, newScene, f.scenes)
  IN [h EXCEPT !.scenes = Append(@, placed), !.selectedSceneId = id]

deleteSelectedScene_KeepNotes(f) ==
  IF f.selectedSceneId = NoId THEN f
  ELSE LET h == pushHistory(f)
           KeepScene(s) == s.id # f.selectedSceneId
       IN [h EXCEPT !.scenes = SelectSeq(@, KeepScene),
                    !.selectedSceneId = NoId]
deleteSelectedScene(f) ==
  IF f.selectedSceneId = NoId THEN f
  ELSE LET h == pushHistory(f)
           KeepNote(n) == n.sceneId # f.selectedSceneId
           KeepScene(s) == s.id # f.selectedSceneId
       IN [h EXCEPT !.notes = SelectSeq(@, KeepNote),
                    !.scenes = SelectSeq(@, KeepScene),
                    !.selectedSceneId = NoId]

(* Number(e.target.value) || dflt, for a numeric input value v *)
NumberOr(v, dflt) == IF Num(v) = 0 \/ ~IsFinite(v) THEN dflt ELSE v

(* the scenes list after a length edit of scene sid to v (toolbar and modal
   run the same updater); prev.find(...)! throws when sid is not in the list *)
setLength(f, scenes, sid, v) ==
  LET IsSid(s) == s.id = sid
      cur == Find(IsSid, scenes)
      delta == QSub(v, cur.lengthSec)
      curEnd == QAdd(cur.positionSec, cur.lengthSec)
      Upd(s) == IF s.id = sid THEN [s EXCEPT !.lengthSec = v]
                ELSE IF delta # Zero /\ QGe(s.positionSec, curEnd)
                  THEN [s EXCEPT !.positionSec =
                          QMax(Zero, roundToSnap(f, QAdd(s.positionSec, delta)))]
                ELSE s
  IN IF cur = NoRec THEN scenes ELSE SeqMap(Upd, scenes)

lengthInput(f, value) ==
  roundToSnap(f, QMax(QI(SCENE_MIN_SEC), NumberOr(value, QI(SCENE_MIN_SEC))))

updateLength(f, value) ==
  IF f.selectedSceneId = NoId THEN f
  ELSE LET h == pushHistory(f)
       IN [h EXCEPT !.scenes = setLength(f, @, f.selectedSceneId, lengthInput(f, value))]

numberInput(value) ==
  LET n == Num(MathFloor(NumberOr(value, QI(1)))) IN IF n < 1 THEN 1 ELSE n

setOriginalNumber_NoDuplicateCheck(f, scenes, sid, vRaw) ==
  LET IsSid(s) == s.id = sid
      cur == Find(IsSid, scenes)
      Renum(s) == IF s.id = cur.id THEN [s EXCEPT !.originalSceneNumber = vRaw] ELSE s
      updated == SeqMap(Renum, scenes)
      NotCur(s) == s.id # cur.id
      placed == autoPlaceByOriginalNumber(f, Find(IsSid, updated),
                                          SelectSeq(updated, NotCur))
      Place(s) == IF s.id = placed.id THEN placed ELSE s
  IN IF cur = NoRec THEN scenes ELSE SeqMap(Place, updated)
(* the scenes list after the number edit of scene sid to vRaw (toolbar and
   modal run the same updater) *)
setOriginalNumber(f, scenes, sid, vRaw) ==
  LET IsSid(s) == s.id = sid
      cur == Find(IsSid, scenes)
      duplicate == \E i \in DOMAIN scenes :
                     scenes[i].id # cur.id /\ scenes[i].originalSceneNumber = vRaw
      Renum(s) == IF s.id = cur.id THEN [s EXCEPT !.originalSceneNumber = vRaw] ELSE s
      updated == SeqMap(Renum, scenes)
      NotCur(s) == s.id # cur.id
      placed == autoPlaceByOriginalNumber(f, Find(IsSid, updated),
                                          SelectSeq(updated, NotCur))
      Place(s) == IF s.id = placed.id THEN placed ELSE s
  IN IF cur = NoRec THEN scenes
     ELSE IF duplicate THEN scenes
     ELSE SeqMap(Place, updated)

updateOriginalNumber(f, value) ==
  IF f.selectedSceneId = NoId THEN f
  ELSE LET h == pushHistory(f)
       IN [h EXCEPT !.scenes =
             setOriginalNumber(f, @, f.selectedSceneId, numberInput(value))]

(* the scene modal's "Scene #" and "Length (s)" inputs *)
modalUpdateOriginalNumber(f, value) ==
  LET h == pushHistory(f)
  IN [h EXCEPT !.scenes =
        setOriginalNumber(f, @, f.modalSceneId, numberInput(value))]

modalUpdateLength(f, value) ==
  LET h == pushHistory(f)
  IN [h EXCEPT !.scenes = setLength(f, @, f.modalSceneId, lengthInput(f, value))]

(* ---------------------------- film: note ops --------------------------- *)
addNoteToSelectedScene(f) ==
  IF f.selectedSceneId = NoId THEN f
  ELSE LET h == pushHistory(f)
           id == randomUUID(f)
           newNote == [id |-> id, sceneId |-> f.selectedSceneId,
                       order |-> Len(notesByScene(f.notes, f.selectedSceneId)),
                       relX |-> QI(12), relY |-> Zero,
                       width |-> QI(NOTE_DEFAULT_W), height |-> QI(NOTE_DEFAULT_H)]
       IN [h EXCEPT !.notes = Append(@, newNote), !.selectedNoteId = id]

deleteSelectedNote(f) ==
  IF f.selectedNoteId = NoId THEN f
  ELSE LET h == pushHistory(f)
           Keep(n) == n.id # f.selectedNoteId
       IN [h EXCEPT !.notes = SelectSeq(@, Keep), !.selectedNoteId = NoId]

(* --------------------------- film: pointer ----------------------------- *)
onMouseDown(f, x, y) ==
  LET g == [f EXCEPT !.isMouseDown = TRUE,
                     !.dragStart = [cx |-> x, cy |-> y],
                     !.playheadSec = QMax(Zero, cssToSec(f, x))]
      hitN == hitNoteAt(f, x, y)
      hitImg == hitImageAt(f, x, y)
      hit == hitSceneAt(f, x, y)
      Toggle(s) == IF s.id = hit.scene.id THEN [s EXCEPT !.collapsed = ~@] ELSE s
  IN IF hitN # NoRec THEN
       [pushHistory(g) EXCEPT
          !.selectedImageSceneId = NoId, !.selectedNoteId = hitN.note.id,
          !.activeNoteId = hitN.note.id,
          !.noteStartSnapshot = [relX |-> hitN.note.relX, relY |-> hitN.note.relY],
          !.dragMode = "note", !.selectedSceneId = NoId]
     ELSE IF hitImg # NoRec THEN
       [pushHistory(g) EXCEPT
          !.selectedNoteId = NoId, !.selectedImageSceneId = hitImg.scene.id,
          !.activeImageSceneId = hitImg.scene.id,
          !.imageStartSnapshot = [relX |-> hitImg.meta.relX, relY |-> hitImg.meta.relY],
          !.dragMode = "image", !.selectedSceneId = NoId]
     ELSE IF hit # NoRec THEN
       IF hitChevron(f, hit.scene, x, y) THEN
         [pushHistory(g) EXCEPT
            !.scenes = SeqMap(Toggle, @), !.selectedSceneId = hit.scene.id,
            !.isMouseDown = FALSE, !.dragMode = "none"]
       ELSE
         [pushHistory(g) EXCEPT
            !.selectedSceneId = hit.scene.id, !.selectedNoteId = NoId,
            !.selectedImageSceneId = NoId, !.activeSceneId = hit.scene.id,
            !.sceneStartSnapshot = [positionSec |-> hit.scene.positionSec,
                                    lengthSec |-> hit.scene.lengthSec,
                                    yPx |-> hit.scene.yPx],
            !.dragMode = hit.region]
     ELSE
       [g EXCEPT !.selectedSceneId = NoId, !.selectedNoteId = NoId,
                 !.selectedImageSceneId = NoId, !.dragMode = "marquee",
                 !.marquee = [x0 |-> x, y0 |-> y, x1 |-> x, y1 |-> y],
                 !.multiSelIds = {}]

(* the position a scene drag stores for the dragged scene *)
dragPosition_NoClamp(f, snap, dx) ==
  roundToSnap(f, QAdd(snap.positionSec, QDiv(dx, f.zoom)))
dragPosition(f, snap, dx) ==
  roundToSnap(f, QMax(Zero, QAdd(snap.positionSec, QDiv(dx, f.zoom))))

(* the <<positionSec, lengthSec>> a resize stores for the resized scene; the
   first variant moves the start along with the right edge *)
resizeGeometry_MovesStart(f, mode, snap, dx) ==
  LET deltaSec == QDiv(dx, f.zoom)
  IN <<roundToSnap(f, QMax(Zero, QAdd(snap.positionSec, deltaSec))),
       roundToSnap(f, QMax(QI(SCENE_MIN_SEC),
                           IF mode = "resizeR" THEN QAdd(snap.lengthSec, deltaSec)
                           ELSE QSub(snap.lengthSec, deltaSec)))>>
resizeGeometry(f, mode, snap, dx) ==
  LET deltaSec == QDiv(dx, f.zoom)
  IN IF mode = "resizeR"
       THEN <<snap.positionSec,
              roundToSnap(f, QMax(QI(SCENE_MIN_SEC), QAdd(snap.lengthSec, deltaSec)))>>
     ELSE <<roundToSnap(f, QMax(Zero, QAdd(snap.positionSec, deltaSec))),
            roundToSnap(f, QMax(QI(SCENE_MIN_SEC), QSub(snap.lengthSec, deltaSec)))>>

(* movementX of the move event is mvx; x, y its position *)
onMouseMove(f, x, y, mvx) ==
  LET dx == QSub(x, f.dragStart.cx)
      dy == QSub(y, f.dragStart.cy)
      sceneId == f.activeSceneId
      snap == f.sceneStartSnapshot
  IN IF ~f.isMouseDown THEN f
     ELSE IF f.dragMode = "pan" THEN [f EXCEPT !.panX = QAdd(@, mvx)]
     ELSE IF f.dragMode = "marquee" THEN
       LET mx0 == QMin(f.marquee.x0, x)
           mx1 == QMax(f.marquee.x0, x)
           my0 == QMin(f.marquee.y0, y)
           my1 == QMax(f.marquee.y0, y)
           Over(s) == rectsOverlap(mx0, my0, QSub(mx1, mx0), QSub(my1, my0),
                        secToCss(f, s.positionSec), QAdd(s.yPx, QI(4)),
                        QMul(s.lengthSec, f.zoom),
                        QI(IF s.collapsed THEN Film_COLLAPSED_H ELSE ROW_HEIGHT - 6))
       IN [f EXCEPT !.marquee = [@ EXCEPT !.x1 = x, !.y1 = y],
                    !.multiSelIds = {f.scenes[i].id : i \in
                                      {j \in DOMAIN f.scenes : Over(f.scenes[j])}}]
     ELSE IF f.dragMode = "note" THEN
       IF f.activeNoteId = NoId \/ f.noteStartSnapshot = NoRec THEN f
       ELSE LET Mv(n) == IF n.id = f.activeNoteId
                         THEN [n EXCEPT !.relX = QAdd(f.noteStartSnapshot.relX, dx),
                                        !.relY = QAdd(f.noteStartSnapshot.relY, dy)]
                         ELSE n
            IN [f EXCEPT !.notes = SeqMap(Mv, @)]
     ELSE IF f.dragMode = "image" THEN
       IF f.activeImageSceneId = NoId \/ f.imageStartSnapshot = NoRec THEN f
       ELSE LET Mv(s) == IF s.id # f.activeImageSceneId \/ s.imageMeta = NoRec THEN s
                         ELSE [s EXCEPT !.imageMeta =
                                 [@ EXCEPT !.relX = QAdd(f.imageStartSnapshot.relX, dx),
                                           !.relY = QAdd(f.imageStartSnapshot.relY, dy)]]
            IN [f EXCEPT !.scenes = SeqMap(Mv, @)]
     ELSE IF sceneId = NoId \/ snap = NoRec THEN f
     ELSE IF f.dragMode = "scene" THEN
       LET newPos == dragPosition(f, snap, dx)
           deltaSec == QSub(newPos, snap.positionSec)
           Grp(s) == IF s.id \in f.multiSelIds
                     THEN [s EXCEPT !.positionSec = QMax(Zero, QAdd(@, deltaSec)),
                                    !.yPx = snap.yPx]
                     ELSE s
           One(s) == IF s.id = sceneId
                     THEN [s EXCEPT !.positionSec = newPos, !.yPx = snap.yPx]
                     ELSE s
       IN IF f.multiSelIds # {} /\ sceneId \in f.multiSelIds
            THEN [f EXCEPT !.scenes = SeqMap(Grp, @)]
          ELSE [f EXCEPT !.scenes = SeqMap(One, @)]
     ELSE IF f.dragMode \in {"resizeR", "resizeL"} THEN
       LET geo == resizeGeometry(f, f.dragMode, snap, dx)
           newPos == geo[1]
           newLen == geo[2]
           deltaLen == QSub(newLen, snap.lengthSec)
           resizedEndOld == QAdd(snap.positionSec, snap.lengthSec)
           Rs(s) == IF s.id = sceneId
                      THEN [s EXCEPT !.positionSec = newPos, !.lengthSec = newLen]
                    ELSE IF deltaLen # Zero /\ QGe(s.positionSec, resizedEndOld)
                      THEN [s EXCEPT !.positionSec =
                              QMax(Zero, roundToSnap(f, QAdd(s.positionSec, deltaLen)))]
                    ELSE s
       IN [f EXCEPT !.scenes = SeqMap(Rs, @)]
     ELSE f

endDrag(f) ==
  LET g == IF f.dragMode = "marquee"
           THEN [f EXCEPT !.selectedSceneId = NoId, !.selectedNoteId = NoId,
                          !.selectedImageSceneId = NoId]
           ELSE f
  IN [g EXCEPT !.isMouseDown = FALSE, !.dragMode = "none",
               !.activeSceneId = NoId, !.sceneStartSnapshot = NoRec,
               !.activeNoteId = NoId, !.noteStartSnapshot = NoRec,
               !.activeImageSceneId = NoId, !.imageStartSnapshot = NoRec,
               !.marquee = NoRec]

onClick(f, x, y) ==
  IF f.isMouseDown THEN f
  ELSE LET g == [f EXCEPT !.playheadSec = QMax(Zero, cssToSec(f, x))]
           hit == hitSceneAt(f, x, y)
           Re(n) == IF n.id = f.selectedNoteId
                    THEN [n EXCEPT !.sceneId = hit.scene.id, !.relX = QI(12),
                                   !.relY = Zero,
                                   !.order = Len(notesByScene(f.notes, hit.scene.id))]
                    ELSE n
       IN IF f.reattachMode /\ f.selectedNoteId # NoId /\ hit # NoRec
            THEN [pushHistory(g) EXCEPT !.notes = SeqMap(Re, @), !.reattachMode = FALSE]
          ELSE g

onDoubleClick(f, x, y) ==
  LET nHit == hitNoteAt(f, x, y)
      iHit == hitImageAt(f, x, y)
      hit == hitSceneAt(f, x, y)
  IN IF nHit # NoRec THEN [f EXCEPT !.selectedNoteId = nHit.note.id]
     ELSE IF iHit # NoRec THEN [f EXCEPT !.selectedImageSceneId = iHit.scene.id]
     ELSE IF hit = NoRec THEN f
     ELSE [f EXCEPT !.modalSceneId = hit.scene.id]

closeSceneModal(f) == [f EXCEPT !.modalSceneId = NoId]

(* ----------------------- film: wheel, touch, zoom ---------------------- *)
Film_onWheel(f, ctrlKey, cursorX, deltaX, deltaY) ==
  IF ctrlKey THEN
    LET nextZoom == QMul(f.zoom, IF QGt(deltaY, Zero) THEN Q(9, 10) ELSE Q(11, 10))
        zp == applyZoomAbout(f, cursorX, nextZoom)
    IN [f EXCEPT !.zoom = zp[1], !.panX = zp[2]]
  ELSE
    LET dx == IF QGt(QAbs(deltaX), QAbs(deltaY)) THEN deltaX ELSE deltaY
    IN [f EXCEPT !.panX = QSub(@, dx)]

(* touches: the touch points on the canvas, in the order of e.touches; a
   two-finger gesture enters with its distance and its centre x *)
Film_onTouchStart1(f, x, y) ==
  [f EXCEPT !.touchMode = "pan", !.touchLast = [x |-> x, y |-> y],
            !.playheadSec = QMax(Zero, cssToSec(f, x))]

Film_onTouchStart2(f, dist, centerX) ==
  [f EXCEPT !.touchMode = "pinch",
            !.pinchStart = [dist |-> dist, zoom |-> f.zoom, centerXCss |-> centerX]]

Film_onTouchMove1(f, x, y) ==
  IF f.touchMode # "pan" THEN f
  ELSE IF f.touchLast = NoRec THEN [f EXCEPT !.touchLast = [x |-> x, y |-> y]]
  ELSE [f EXCEPT !.touchLast = [x |-> x, y |-> y],
                 !.panX = QAdd(@, QSub(x, f.touchLast.x))]

Film_onTouchMove2(f, dist) ==
  IF f.touchMode # "pinch" \/ f.pinchStart = NoRec THEN f
  ELSE LET scale == QDiv(dist, QMax(QI(1), f.pinchStart.dist))
           nextZoom == Film_clampZoom(QMul(f.pinchStart.zoom, scale))
           zp == applyZoomAbout(f, f.pinchStart.centerXCss, nextZoom)
       IN [f EXCEPT !.zoom = zp[1], !.panX = zp[2]]

(* onTouchEnd with no touch left, and with one touch left at (x, y) *)
Film_onTouchEnd0(f) ==
  [f EXCEPT !.touchMode = "none", !.touchLast = NoRec, !.pinchStart = NoRec]
Film_onTouchEnd1(f, x, y) ==
  [f EXCEPT !.touchMode = "pan", !.touchLast = [x |-> x, y |-> y],
            !.pinchStart = NoRec]

(* the toolbar's zoom range input *)
Film_zoomSlider(f, value) == [f EXCEPT !.zoom = Film_clampZoom(value)]

totalDurationSec(f) ==
  LET ends == {QAdd(f.scenes[i].positionSec, f.scenes[i].lengthSec) : i \in DOMAIN f.scenes}
      top == CHOOSE e \in ends \cup {QI(60)} : \A o \in ends \cup {QI(60)} : QLe(o, e)
  IN top

(* clientWidth: the canvas element's width *)
fitAll(f, clientWidth) ==
  LET wCss == QMax(QI(1), QSub(clientWidth, QI(24)))
      z == Film_clampZoom(QDiv(wCss, totalDurationSec(f)))
  IN [f EXCEPT !.zoom = z, !.panX = QI(12)]

fitSelected(f, clientWidth) ==
  LET IsSel(x) == x.id = f.selectedSceneId
      s == Find(IsSel, f.scenes)
      wCss == QMax(QI(1), QSub(clientWidth, QI(48)))
      dur == QMax(QI(SCENE_MIN_SEC), s.lengthSec)
      z == Film_clampZoom(QDiv(wCss, dur))
  IN IF f.selectedSceneId = NoId \/ s = NoRec THEN f
     ELSE [f EXCEPT !.zoom = z, !.panX = QSub(QI(24), QMul(s.positionSec, z))]

setSnapEnabled(f, checked) == [f EXCEPT !.snapEnabled = checked]
setSnapStep(f, value) ==
  [f EXCEPT !.snapStep = QMax(Q(1, 100), NumberOr(value, Q(1, 100)))]

(* ---------------------------- film: import ----------------------------- *)
(* parseScript lays the scenes out one after the other, 1 s apart; ests are
   the scenes' estimated lengths, each within 10..180 *)
layoutScenes(ests) ==
  LET RECURSIVE CursorAt(_)
      CursorAt(i) == IF i = 1 THEN Zero
                     ELSE QAdd(CursorAt(i - 1), QAdd(ests[i - 1], QI(1)))
  IN [i \in DOMAIN ests |->
        [index |-> i, estLengthSec |-> ests[i], positionSec |-> CursorAt(i)]]

(* onScriptFileChosen once the file is parsed: the scenes list is replaced
   and the notes list emptied; ids are fresh *)
importScenes(f, parsed) ==
  LET base == Cardinality(LiveIds(f)) + 1
      Imported(i) ==
        [id |-> CHOOSE n \in base..(base + Cardinality(LiveIds(f)) + i) :
                  Cardinality({m \in base..n : m \notin LiveIds(f)}) = i
                  /\ n \notin LiveIds(f),
         originalSceneNumber |-> parsed[i].index,
         positionSec |-> QMax(Zero, parsed[i].positionSec),
         lengthSec |-> QMax(QI(1), MathRound(parsed[i].estLengthSec)),
         yPx |-> QI(8), color |-> pickColor(i - 1), collapsed |-> FALSE,
         imageUrl |-> FALSE, imageMeta |-> NoRec]
  IN IF Len(parsed) = 0 THEN f
     ELSE [f EXCEPT !.scenes = [i \in DOMAIN parsed |-> Imported(i)],
                    !.notes = <<>>]

(* --------------------------- film: project ----------------------------- *)
Film_makeProject(f) ==
  [version |-> 1, kind |-> "dtfilm", projectName |-> f.projectName,
   zoom |-> f.zoom, panX |-> f.panX, playheadSec |-> f.playheadSec,
   scenes |-> f.scenes, notes |-> f.notes, scenesIsArray |-> TRUE,
   notesIsArray |-> TRUE]

(* a parsed project file p: zoom, panX, playheadSec are numbers or absent
   (NoNum); scenesIsArray / notesIsArray tell Array.isArray of the fields *)
Film_projectValid_Always(p) == TRUE
Film_projectValid(p) ==
  p.kind = "dtfilm" /\ p.version = 1 /\ p.scenesIsArray /\ p.notesIsArray

Film_loadProject(f, p) ==
  IF ~Film_projectValid(p) THEN f
  ELSE [f EXCEPT !.scenes = p.scenes, !.notes = p.notes,
                 !.zoom = Film_clampZoom(IF p.zoom = NoNum THEN f.zoom ELSE p.zoom),
                 !.panX = IF p.panX = NoNum THEN Zero ELSE p.panX,
                 !.playheadSec = IF p.playheadSec = NoNum THEN Zero ELSE p.playheadSec,
                 !.projectName = IF p.projectName = "" THEN "Untitled Project"
                                 ELSE p.projectName]

(* ============================ the machine ============================== *)
(* bounds of the model: the number of events a session handles *)
MaxModelEvents == 4

(* ev: the last event handled and its inputs; budget: events left *)
Ev(op, arg) == [op |-> op, arg |-> arg]
Tick == budget > 0 /\ budget' = budget - 1

(* A project autosaved by an earlier session, which the mount effect loads:
   zoom slider at 10, two scenes added at playhead 0 (the second auto-placed
   after the first), one note added to each. *)
SavedScene(id, num, pos) ==
  [id |-> id, originalSceneNumber |-> num, positionSec |-> QI(pos),
   lengthSec |-> QI(30), yPx |-> QI(8), color |-> pickColor(num - 1),
   collapsed |-> FALSE, imageUrl |-> FALSE, imageMeta |-> NoRec]
SavedNote(id, sid, order) ==
  [id |-> id, sceneId |-> sid, order |-> order, relX |-> QI(12), relY |-> Zero,
   width |-> QI(NOTE_DEFAULT_W), height |-> QI(NOTE_DEFAULT_H)]
ProjectA ==
  [version |-> 1, kind |-> "dtfilm", projectName |-> "A",
   zoom |-> QI(10), panX |-> Zero, playheadSec |-> Zero,
   scenes |-> <<SavedScene(1, 1, 0), SavedScene(2, 2, 31)>>,
   notes |-> <<SavedNote(3, 1, 0), SavedNote(4, 2, 0)>>,
   scenesIsArray |-> TRUE, notesIsArray |-> TRUE]

(* pointer positions (CSS px) offered to the film editor, inside the body of
   scene 1 and of scene 2 of project A, and the values typed into the
   number inputs *)
ModelPoints == {<<100, 60>>, <<400, 60>>}
FilmNumbers == {QI(0), QI(2), Q(7, 2)}

FilmFrame == UNCHANGED <<page, music, calc>>

AddScene ==
  /\ page = "film" /\ Tick
  /\ film' = addScene(film)
  /\ ev' = Ev("addScene", <<>>)
  /\ FilmFrame

DeleteSelectedScene ==
  /\ page = "film" /\ Tick /\ film.selectedSceneId # NoId
  /\ film' = deleteSelectedScene(film)
  /\ ev' = Ev("deleteSelectedScene", <<film.selectedSceneId>>)
  /\ FilmFrame

NumberTaken(f, sid, n) ==
  \E i \in DOMAIN f.scenes :
    f.scenes[i].id # sid /\ f.scenes[i].originalSceneNumber = n

UpdateOriginalNumber ==
  /\ page = "film" /\ Tick /\ film.selectedSceneId # NoId
  /\ \E v \in FilmNumbers :
       /\ film' = updateOriginalNumber(film, v)
       /\ ev' = Ev("updateOriginalNumber", <<film.selectedSceneId, numberInput(v)>>)
  /\ FilmFrame

ModalUpdateOriginalNumber ==
  /\ page = "film" /\ Tick /\ film.modalSceneId # NoId
  /\ \E v \in FilmNumbers :
       /\ film' = modalUpdateOriginalNumber(film, v)
       /\ ev' = Ev("updateOriginalNumber", <<film.modalSceneId, numberInput(v)>>)
  /\ FilmFrame

AddNoteToSelectedScene ==
  /\ page = "film" /\ Tick /\ film.selectedSceneId # NoId
  /\ film' = addNoteToSelectedScene(film)
  /\ ev' = Ev("addNoteToSelectedScene", <<>>)
  /\ FilmFrame

Undo ==
  /\ page = "film" /\ Tick /\ Len(film.history) > 0
  /\ film' = undo(film)
  /\ ev' = Ev("undo", <<>>)
  /\ FilmFrame

ModelMouseDown ==
  /\ page = "film" /\ Tick
  /\ \E p \in ModelPoints :
       /\ film' = onMouseDown(film, QI(p[1]), QI(p[2]))
       /\ ev' = Ev("onMouseDown", p)
  /\ FilmFrame

MouseUp ==
  /\ page = "film" /\ Tick
  /\ film' = endDrag(film)
  /\ ev' = Ev("endDrag", <<>>)
  /\ FilmFrame

ModelDoubleClick ==
  /\ page = "film" /\ Tick
  /\ \E p \in ModelPoints :
       /\ film' = onDoubleClick(film, QI(p[1]), QI(p[2]))
       /\ ev' = Ev("onDoubleClick", p)
  /\ FilmFrame

CloseSceneModal ==
  /\ page = "film" /\ Tick /\ film.modalSceneId # NoId
  /\ film' = closeSceneModal(film)
  /\ ev' = Ev("closeSceneModal", <<>>)
  /\ FilmFrame

(* ------------------------- film: drag and resize ----------------------- *)
MaxDragEvents == 4

(* pointer-down positions on project A at zoom 10: the body and the right
   handle of scene 1, the left handle and the body of scene 2; pointer-move
   x positions; snap steps typed into the step input; parsed scripts *)
DragPoints == {<<100, 60>>, <<296, 60>>, <<312, 60>>, <<400, 60>>}
MoveXs == {QI(6), Q(2237, 10), QI(500)}
SnapSteps == {QI(3), Q(1, 4)}
ParsedEsts == {<<QI(10), Q(123, 10)>>}

DragMouseDown ==
  /\ page = "film" /\ Tick
  /\ \E p \in DragPoints :
       /\ film' = onMouseDown(film, QI(p[1]), QI(p[2]))
       /\ ev' = Ev("onMouseDown", p)
  /\ FilmFrame

DragMouseMove ==
  /\ page = "film" /\ Tick /\ film.isMouseDown
  /\ \E x \in MoveXs :
       /\ film' = onMouseMove(film, x, QI(60), Zero)
       /\ ev' = Ev("onMouseMove", <<x, QI(60)>>)
  /\ FilmFrame

SetSnapEnabled ==
  /\ page = "film" /\ Tick
  /\ film' = setSnapEnabled(film, ~film.snapEnabled)
  /\ ev' = Ev("setSnapEnabled", <<>>)
  /\ FilmFrame

SetSnapStep ==
  /\ page = "film" /\ Tick
  /\ \E v \in SnapSteps :
       /\ film' = setSnapStep(film, v)
       /\ ev' = Ev("setSnapStep", <<v>>)
  /\ FilmFrame

(* the toolbar's length input is shown while a scene is selected; the
   updater reads the selected scene from the list *)
UpdateLength ==
  /\ page = "film" /\ Tick /\ film.selectedSceneId # NoId
  /\ \E i \in DOMAIN film.scenes : film.scenes[i].id = film.selectedSceneId
  /\ \E v \in FilmNumbers :
       /\ film' = updateLength(film, v)
       /\ ev' = Ev("updateLength", <<film.selectedSceneId, v>>)
  /\ FilmFrame

ImportScript ==
  /\ page = "film" /\ Tick
  /\ \E ests \in ParsedEsts :
       /\ film' = importScenes(film, layoutScenes(ests))
       /\ ev' = Ev("onScriptFileChosen", ests)
  /\ FilmFrame

(* ======================== music editor (WaveformCanvas) ================ *)
Music_COLLAPSED_H == 18
Music_TOGGLE_SIZE == 12
Music_TOGGLE_PAD == 4
Music_MIN_ZOOM == 1
Music_MAX_ZOOM == 300

(* duration: the loaded track's duration, 0 when no track is loaded;
   canvasW, canvasH: the canvas element's client size (device pixel ratio 1);
   viewportW, viewportH: the sizes the resize observers report *)
MusicInit ==
  [zoom |-> QI(100), panX |-> Zero, panY |-> Zero, playheadSec |-> Zero,
   projectName |-> "Untitled Audio Project",
   notes |-> <<>>, lyricsClips |-> <<>>, markers |-> <<>>,
   selectedNoteId |-> NoId, selectedLyricId |-> NoId, selectedMarkerId |-> NoId,
   modalNoteId |-> NoId, modalLyricId |-> NoId,
   loopEnabled |-> FALSE, loopA |-> NoNum, loopB |-> NoNum, loopDrag |-> "none",
   dragMode |-> "none", isMouseDown |-> FALSE,
   dragStart |-> [cx |-> Zero, cy |-> Zero],
   activeNoteId |-> NoId, noteStart |-> NoRec, lyricStart |-> NoRec,
   draggingMarkerId |-> NoId,
   snappingEnabled |-> FALSE, dragMovesTimestamp |-> FALSE,
   lyricsOffsetSec |-> Zero,
   touchMode |-> "none", touchLast |-> NoRec, pinchStart |-> NoRec,
   touchDrag |-> [mode |-> "none"],
   isPlaying |-> FALSE,
   duration |-> Zero, canvasW |-> QI(800), canvasH |-> QI(400),
   viewportW |-> QI(800), viewportH |-> QI(400)]

Music_clampZoom(z) == QMin(QI(Music_MAX_ZOOM), QMax(QI(Music_MIN_ZOOM), z))

clampPanX_NoMaxPan(m, nextPan, nextZoom) ==
  IF m.duration = Zero \/ m.canvasW = Zero \/ ~IsFinite(m.duration) THEN nextPan
  ELSE LET viewSec == QDiv(m.canvasW, QMax(QI(1), nextZoom))
           maxLeftSec == QMax(Zero, QSub(m.duration, viewSec))
       IN QMax(QMul(QNeg(maxLeftSec), nextZoom), nextPan)
clampPanX_Halving(m, nextPan, nextZoom) ==
  IF m.duration = Zero \/ m.canvasW = Zero \/ ~IsFinite(m.duration) THEN nextPan
  ELSE LET viewSec == QDiv(m.canvasW, QMax(QI(1), nextZoom))
           maxLeftSec == QMax(Zero, QSub(m.duration, viewSec))
       IN QMax(QMul(QNeg(maxLeftSec), nextZoom), QMin(Zero, QDiv(nextPan, QI(2))))
clampPanX(m, nextPan, nextZoom) ==
  IF m.duration = Zero \/ m.canvasW = Zero \/ ~IsFinite(m.duration) THEN nextPan
  ELSE LET viewSec == QDiv(m.canvasW, QMax(QI(1), nextZoom))
           maxLeftSec == QMax(Zero, QSub(m.duration, viewSec))
           minPan == QMul(QNeg(maxLeftSec), nextZoom)
           maxPan == Zero
       IN QMax(minPan, QMin(maxPan, nextPan))

noteRect(n) ==
  [w |-> n.w, h |-> IF n.collapsed THEN QI(Music_COLLAPSED_H) ELSE n.h]

contentHeightPx(m) ==
  LET bottoms == {QAdd(m.notes[i].yPx, noteRect(m.notes[i]).h) : i \in DOMAIN m.notes}
                   \cup {Zero}
      maxY == CHOOSE b \in bottoms : \A o \in bottoms : QLe(o, b)
  IN QMax(QAdd(maxY, QI(60)), QI(1200))

clampPanY(m, next, viewportH) ==
  LET minY == QMin(Zero, QSub(viewportH, contentHeightPx(m)))
  IN QMax(minY, QMin(Zero, next))

cssToWorldTime(m, xCss) == QDiv(QSub(xCss, m.panX), m.zoom)
worldTimeToCss(m, tSec) == QAdd(QMul(tSec, m.zoom), m.panX)

Music_pickGridStepSec(z) ==
  LET raw == QDiv(QI(120), z)
      steps == <<Q(1, 2), QI(1), QI(2), QI(5), QI(10), QI(15), QI(30), QI(60),
                 QI(120), QI(300)>>
      fits == {i \in DOMAIN steps : QLe(raw, steps[i])}
  IN IF fits = {} THEN QI(600)
     ELSE steps[CHOOSE i \in fits : \A j \in fits : i <= j]

snapTime(m, t) ==
  IF ~m.snappingEnabled THEN QMax(Zero, t)
  ELSE LET half == QDiv(Music_pickGridStepSec(m.zoom), QI(2))
       IN QMax(Zero, QMul(MathRound(QDiv(t, half)), half))

lyricRect(m, clip) ==
  LET mid == QDiv(m.canvasH, QI(2))
      h == IF clip.h = NoNum THEN QI(40) ELSE clip.h
      startCss == worldTimeToCss(m, QAdd(clip.timestampSec, m.lyricsOffsetSec))
      wCss == IF clip.endSec # NoNum /\ QGt(clip.endSec, clip.timestampSec)
                THEN QMax(QI(40), QMul(QMax(Zero, QSub(clip.endSec, clip.timestampSec)),
                                       m.zoom))
              ELSE IF clip.w # NoNum /\ clip.w # Zero THEN clip.w
              ELSE QI(60)
  IN [left |-> startCss, top |-> QSub(mid, QDiv(h, QI(2))), w |-> wCss, h |-> h]

hitTestLyric(m, xCss, yCss) ==
  LET Hit(c) == LET r == lyricRect(m, c)
                IN InRect(xCss, yCss, r.left, r.top, r.w, r.h)
  IN FindLast(Hit, m.lyricsClips)

hitTestMarker(m, xCss) ==
  LET Hit(k) == QLe(QAbs(QSub(xCss, worldTimeToCss(m, k.sec))), QI(6))
  IN FindLast(Hit, m.markers)

(* "A", "B", or "none" for null *)
hitTestLoopHandle(m, xCss) ==
  IF ~(m.loopEnabled /\ m.loopA # NoNum /\ m.loopB # NoNum /\ QGt(m.loopB, m.loopA))
    THEN "none"
  ELSE IF QLe(QAbs(QSub(xCss, worldTimeToCss(m, m.loopA))), QI(6)) THEN "A"
  ELSE IF QLe(QAbs(QSub(xCss, worldTimeToCss(m, m.loopB))), QI(6)) THEN "B"
  ELSE "none"

hitTestNote(m, xCss, yCss) ==
  LET Hit(n) == InRect(xCss, yCss,
                       QAdd(worldTimeToCss(m, n.timestampSec), n.xOffsetPx),
                       QAdd(n.yPx, m.panY), noteRect(n).w, noteRect(n).h)
  IN FindLast(Hit, m.notes)

hitToggleZone(m, n, xCss, yCss) ==
  InRect(xCss, yCss,
         QAdd(QAdd(worldTimeToCss(m, n.timestampSec), n.xOffsetPx), QI(Music_TOGGLE_PAD)),
         QAdd(QAdd(n.yPx, m.panY), QI(Music_TOGGLE_PAD)),
         QI(Music_TOGGLE_SIZE), QI(Music_TOGGLE_SIZE))

(* --------------------------- music: pointer ---------------------------- *)
Music_onMouseDown(m, x, y) ==
  LET g == [m EXCEPT !.isMouseDown = TRUE, !.dragStart = [cx |-> x, cy |-> y]]
      handle == hitTestLoopHandle(m, x)
      mHit == hitTestMarker(m, x)
      hitLyric == hitTestLyric(m, x, y)
      hit == hitTestNote(m, x, y)
      Toggle(n) == IF n.id = hit.id THEN [n EXCEPT !.collapsed = ~@] ELSE n
  IN IF handle # "none" THEN [g EXCEPT !.loopDrag = handle]
     ELSE IF mHit # NoRec THEN
       [g EXCEPT !.draggingMarkerId = mHit.id, !.selectedMarkerId = mHit.id,
                 !.dragMode = "pan"]
     ELSE IF hitLyric # NoRec THEN
       [g EXCEPT !.dragMode = "lyric",
                 !.lyricStart = [timestampSec |-> hitLyric.timestampSec],
                 !.selectedLyricId = hitLyric.id, !.selectedNoteId = NoId]
     ELSE IF hit # NoRec THEN
       IF hitToggleZone(m, hit, x, y) THEN
         [g EXCEPT !.notes = SeqMap(Toggle, @), !.isMouseDown = FALSE,
                   !.dragMode = "none", !.selectedNoteId = hit.id,
                   !.selectedLyricId = NoId]
       ELSE
         [g EXCEPT !.dragMode = "note", !.activeNoteId = hit.id,
                   !.noteStart = [timestampSec |-> hit.timestampSec,
                                  xOffsetPx |-> hit.xOffsetPx, yPx |-> hit.yPx],
                   !.selectedNoteId = hit.id, !.selectedLyricId = NoId]
     ELSE [g EXCEPT !.dragMode = "pan", !.selectedNoteId = NoId,
                    !.selectedLyricId = NoId]

(* the value a drag of loop handle A, B stores, s being the snapped time
   under the pointer *)
dragLoopA(m, s) ==
  LET newA == QMax(Zero, s)
  IN IF m.loopB # NoNum /\ QGe(newA, m.loopB)
       THEN QMax(Zero, QSub(m.loopB, Q(1, 100)))
     ELSE newA
dragLoopB(m, s) ==
  LET newB == QMax(Zero, s)
  IN IF m.loopA # NoNum /\ QLe(newB, m.loopA) THEN QAdd(m.loopA, Q(1, 100))
     ELSE newB

(* movementX, movementY of the move event are mvx, mvy; shiftKey is shift *)
Music_onMouseMove(m, x, y, mvx, mvy, shift) ==
  LET totalDx == QSub(x, m.dragStart.cx)
      totalDy == QSub(y, m.dragStart.cy)
      s == snapTime(m, cssToWorldTime(m, x))
      MvMarker(k) == IF k.id = m.draggingMarkerId
                     THEN [k EXCEPT !.sec = QMax(Zero, s)] ELSE k
      lyricTime ==
        LET newLeftPx == QAdd(worldTimeToCss(m, QAdd(m.lyricStart.timestampSec,
                                                     m.lyricsOffsetSec)), totalDx)
        IN snapTime(m, QSub(cssToWorldTime(m, newLeftPx), m.lyricsOffsetSec))
      MvLyric(c) == IF c.id = m.selectedLyricId
                    THEN [c EXCEPT !.timestampSec = lyricTime] ELSE c
      shouldMoveTimestamp == IF shift THEN ~m.dragMovesTimestamp
                             ELSE m.dragMovesTimestamp
      MvNote(n) ==
        IF n.id # m.activeNoteId THEN n
        ELSE LET startLeftPx == QAdd(worldTimeToCss(m, m.noteStart.timestampSec),
                                     m.noteStart.xOffsetPx)
                 newLeftPx == QAdd(startLeftPx, totalDx)
                 newY == QMax(Zero, QAdd(m.noteStart.yPx, totalDy))
             IN IF ~shouldMoveTimestamp
                  THEN [n EXCEPT !.xOffsetPx =
                            QSub(newLeftPx, worldTimeToCss(m, m.noteStart.timestampSec)),
                          !.yPx = newY]
                ELSE [n EXCEPT !.timestampSec =
                          QMax(Zero, snapTime(m, cssToWorldTime(m,
                                                QSub(newLeftPx, n.xOffsetPx)))),
                        !.yPx = newY]
  IN IF ~m.isMouseDown THEN m
     ELSE IF m.loopDrag = "A" THEN [m EXCEPT !.loopA = dragLoopA(m, s)]
     ELSE IF m.loopDrag = "B" THEN [m EXCEPT !.loopB = dragLoopB(m, s)]
     ELSE IF m.draggingMarkerId # NoId THEN [m EXCEPT !.markers = SeqMap(MvMarker, @)]
     ELSE IF m.dragMode = "pan" THEN
       [m EXCEPT !.panX = clampPanX(m, QAdd(@, mvx), m.zoom),
                 !.panY = clampPanY(m, QAdd(@, mvy), m.viewportH)]
     ELSE IF m.dragMode = "lyric" /\ m.lyricStart # NoRec /\ m.selectedLyricId # NoId
       THEN [m EXCEPT !.lyricsClips = SeqMap(MvLyric, @)]
     ELSE IF m.dragMode = "note" /\ m.activeNoteId # NoId /\ m.noteStart # NoRec
       THEN [m EXCEPT !.notes = SeqMap(MvNote, @)]
     ELSE m

Music_endDrag(m) ==
  [m EXCEPT !.isMouseDown = FALSE, !.dragMode = "none", !.activeNoteId = NoId,
            !.noteStart = NoRec, !.loopDrag = "none", !.draggingMarkerId = NoId]

Music_onClick(m, x, y) ==
  IF m.isMouseDown THEN m
  ELSE LET hitLyric == hitTestLyric(m, x, y)
           hit == hitTestNote(m, x, y)
       IN [m EXCEPT !.selectedLyricId = IF hitLyric # NoRec THEN hitLyric.id ELSE NoId,
                    !.playheadSec = QMax(Zero, QDiv(QSub(x, m.panX), m.zoom)),
                    !.selectedNoteId = IF hit # NoRec THEN hit.id ELSE NoId]

(* ---------------------- music: wheel, touch, zoom ----------------------- *)
Music_onWheel(m, ctrlKey, cursorX, deltaX, deltaY) ==
  IF ctrlKey THEN
    LET worldUnder == QDiv(QSub(cursorX, m.panX), m.zoom)
        factor == IF QGt(deltaY, Zero) THEN Q(9, 10) ELSE Q(11, 10)
        nextZoom == Music_clampZoom(QMul(m.zoom, factor))
        nextPan == clampPanX(m, QSub(cursorX, QMul(worldUnder, nextZoom)), nextZoom)
    IN [m EXCEPT !.zoom = nextZoom, !.panX = nextPan]
  ELSE IF QGe(QAbs(deltaX), QAbs(deltaY))
    THEN [m EXCEPT !.panX = clampPanX(m, QSub(@, deltaX), m.zoom)]
  ELSE [m EXCEPT !.panY = clampPanY(m, QSub(@, deltaY), m.viewportH)]

(* onTouchStart with two touches, dist apart and centred at centerX *)
Music_onTouchStart2(m, dist, centerX) ==
  [m EXCEPT !.touchDrag = [mode |-> "none"], !.touchMode = "pinch",
            !.pinchStart = [dist |-> dist, zoom |-> m.zoom, centerXCss |-> centerX]]

(* onTouchMove with two touches dist apart *)
Music_onTouchMove2(m, dist) ==
  IF m.touchDrag.mode = "note" THEN m
  ELSE IF m.touchMode # "pinch" \/ m.pinchStart = NoRec THEN m
  ELSE LET scale == QDiv(dist, QMax(QI(1), m.pinchStart.dist))
           nextZoom == Music_clampZoom(QMul(m.pinchStart.zoom, scale))
           center == m.pinchStart.centerXCss
           worldUnder == QDiv(QSub(center, m.panX), m.zoom)
           nextPan == clampPanX(m, QSub(center, QMul(worldUnder, nextZoom)), nextZoom)
       IN [m EXCEPT !.zoom = nextZoom, !.panX = nextPan]

Music_onTouchEnd0(m) ==
  [m EXCEPT !.touchMode = "none", !.touchLast = NoRec, !.pinchStart = NoRec,
            !.touchDrag = [mode |-> "none"]]

(* the toolbar's zoom control and the minimap's window resize *)
Music_setZoom(m, z) == [m EXCEPT !.zoom = Music_clampZoom(z)]

onWindowResize(m, startSec, durationSec) ==
  LET wCss == IF m.viewportW = Zero THEN QI(1) ELSE m.viewportW
      nextZoom == Music_clampZoom(QDiv(wCss, QMax(Q(1, 1000), durationSec)))
  IN [m EXCEPT !.zoom = nextZoom,
               !.panX = clampPanX(m, QNeg(QMul(startSec, nextZoom)), nextZoom)]

(* ------------------------ music: loop and toolbar ---------------------- *)
onSetLoopA(m) == [m EXCEPT !.loopA = m.playheadSec]
onSetLoopB(m) ==
  IF m.loopA # NoNum /\ QLe(m.playheadSec, m.loopA) THEN m
  ELSE [m EXCEPT !.loopB = m.playheadSec]
onClearLoop(m) == [m EXCEPT !.loopA = NoNum, !.loopB = NoNum]
setLoopEnabled(m, on) == [m EXCEPT !.loopEnabled = on]

Music_LiveIds(m) ==
  {m.notes[i].id : i \in DOMAIN m.notes}
  \cup {m.lyricsClips[i].id : i \in DOMAIN m.lyricsClips}
  \cup {m.markers[i].id : i \in DOMAIN m.markers}
  \cup {m.selectedNoteId, m.selectedLyricId, m.selectedMarkerId, m.modalNoteId,
        m.modalLyricId, m.activeNoteId, m.draggingMarkerId}
Music_randomUUID(m) ==
  CHOOSE n \in 1..(Cardinality(Music_LiveIds(m)) + 1) :
    n \notin Music_LiveIds(m) /\ \A k \in 1..(n - 1) : k \in Music_LiveIds(m)

addNote(m) ==
  LET id == Music_randomUUID(m)
      newNote == [id |-> id, timestampSec |-> m.playheadSec, xOffsetPx |-> Zero,
                  yPx |-> QI(20 + (Len(m.notes) % 6) * 30),
                  w |-> QI(160), h |-> QI(26), collapsed |-> FALSE]
  IN [m EXCEPT !.notes = Append(@, newNote), !.selectedNoteId = id]

onAddMarkerAtPlayhead(m) ==
  LET id == Music_randomUUID(m)
  IN [m EXCEPT !.markers = Append(@, [id |-> id, sec |-> m.playheadSec]),
               !.selectedMarkerId = id]

(* addAlignedLyricsAsClips for one aligned line of the given start, explicit
   end (NoNum when absent) and estimated duration of its text *)
addAlignedLyricLine(m, startSec, endSec, estSec) ==
  LET scale == IF m.duration # Zero /\ IsFinite(m.duration)
                  /\ QGt(startSec, QMul(m.duration, Q(3, 2)))
               THEN Q(1, 1000) ELSE QI(1)
      start == QMax(Zero, QMul(startSec, scale))
      endN == IF endSec = NoNum THEN NoNum ELSE QMax(Zero, QMul(endSec, scale))
      e0 == IF endN # NoNum /\ QGt(endN, start) THEN endN
            ELSE QAdd(start, estSec)
      e1 == IF m.duration # Zero /\ IsFinite(m.duration) THEN QMin(e0, m.duration)
            ELSE e0
      end == IF QGt(e1, start) THEN e1 ELSE QAdd(start, Q(1, 2))
      id == Music_randomUUID(m)
  IN [m EXCEPT !.lyricsClips = Append(@, [id |-> id, timestampSec |-> start,
                                          endSec |-> end, w |-> NoNum, h |-> QI(40)]),
               !.selectedLyricId = id]

(* --------------------------- music: project ---------------------------- *)
Music_makeProject(m) ==
  [version |-> 1, kind |-> "dtmusic", projectName |-> m.projectName,
   zoom |-> m.zoom, panX |-> m.panX, playheadSec |-> m.playheadSec,
   notes |-> m.notes, notesIsArray |-> TRUE]

(* a parsed project file p: zoom, panX, playheadSec are numbers, or NoNum
   when absent or not of type number *)
Music_projectValid(p) == p.kind = "dtmusic" /\ p.version = 1 /\ p.notesIsArray

Music_loadProject(m, p) ==
  IF ~Music_projectValid(p) THEN m
  ELSE [m EXCEPT !.notes = p.notes,
                 !.zoom = IF p.zoom # NoNum THEN p.zoom ELSE m.zoom,
                 !.panX = IF p.panX # NoNum THEN p.panX ELSE Zero,
                 !.playheadSec = IF p.playheadSec # NoNum THEN p.playheadSec ELSE Zero,
                 !.projectName = IF p.projectName = "" THEN "Untitled Audio Project"
                                 ELSE p.projectName]

(* newCanvas, the confirm dialog accepted *)
newCanvas(m) ==
  [m EXCEPT !.notes = <<>>, !.lyricsClips = <<>>, !.markers = <<>>,
            !.selectedNoteId = NoId, !.modalNoteId = NoId,
            !.selectedLyricId = NoId, !.modalLyricId = NoId,
            !.selectedMarkerId = NoId,
            !.loopEnabled = FALSE, !.loopA = NoNum, !.loopB = NoNum,
            !.panX = Zero, !.panY = Zero, !.zoom = QI(100), !.playheadSec = Zero]

(* ============================ lib/time.ts ============================== *)
timeToX(tSec, zoomPxPerSec, panX) == QAdd(QMul(tSec, zoomPxPerSec), panX)
xToTime_NoPan(xPx, zoomPxPerSec, panX) == QDiv(xPx, zoomPxPerSec)
xToTime(xPx, zoomPxPerSec, panX) == QDiv(QSub(xPx, panX), zoomPxPerSec)

(* calc: the arguments and results of the library calls under check *)
CalcInit ==
  [fn |-> "none", t |-> Zero, zoom |-> QI(1), pan |-> Zero, x |-> NoNum,
   back |-> NoNum]

TimeInputs == {Zero, Q(1, 2), Q(617, 50), QI(100), QI(3661)}
ZoomInputs == {QI(1), Q(1, 3), QI(50), QI(100), QI(300)}
PanInputs == {QI(-1000), QI(-250), Zero, Q(75, 2)}

CallTimeToX ==
  /\ page = "time" /\ calc.fn = "none"
  /\ calc' = [calc EXCEPT !.fn = "timeToX", !.x = timeToX(calc.t, calc.zoom, calc.pan)]
  /\ ev' = Ev("timeToX", <<>>)
  /\ UNCHANGED <<page, film, music, budget>>

CallXToTime ==
  /\ page = "time" /\ calc.fn = "timeToX"
  /\ calc' = [calc EXCEPT !.fn = "xToTime", !.back = xToTime(calc.x, calc.zoom, calc.pan)]
  /\ ev' = Ev("xToTime", <<>>)
  /\ UNCHANGED <<page, film, music, budget>>


(* the film page mounted: nothing autosaved, or project A restored *)
InitFilmModel ==
  /\ page = "film"
  /\ film \in {FilmInit, Film_loadProject(FilmInit, ProjectA)}
  /\ music = MusicInit /\ calc = CalcInit /\ ev = Ev("mount", <<>>)
  /\ budget = MaxModelEvents

NextFilmModel ==
  \/ AddScene \/ DeleteSelectedScene \/ UpdateOriginalNumber
  \/ ModalUpdateOriginalNumber \/ AddNoteToSelectedScene \/ Undo
  \/ ModelDoubleClick \/ CloseSceneModal \/ ModelMouseDown \/ MouseUp

SpecFilmModel == InitFilmModel /\ [][NextFilmModel]_vars

(* ------------------------------ zooming -------------------------------- *)
MaxZoomEvents == 3

(* wheel events <<ctrlKey, cursorX, deltaX, deltaY>>; two-finger gestures by
   their distance and centre; values of the zoom controls; minimap window
   resizes <<startSec, durationSec>>; project files by their zoom field *)
WheelEvents ==
  {<<TRUE, QI(100), Zero, QI(-100)>>, <<TRUE, QI(100), Zero, QI(100)>>,
   <<TRUE, QI(400), Zero, QI(100)>>, <<FALSE, QI(100), QI(300), Zero>>}
PinchDists == {QI(50), QI(500)}
ZoomValues == {QI(1), QI(37), QI(1000)}
WindowResizes == {<<Zero, QI(4)>>, <<QI(2), Q(1, 1000)>>}
FileZooms == {QI(1000), QI(50), NoNum}
MusicFile(z) ==
  [version |-> 1, kind |-> "dtmusic", projectName |-> "M", zoom |-> z,
   panX |-> Zero, playheadSec |-> Zero, notes |-> <<>>, notesIsArray |-> TRUE]

MusicFrame == UNCHANGED <<page, film, calc>>

FilmWheel ==
  /\ page = "film" /\ Tick
  /\ \E w \in WheelEvents :
       /\ film' = Film_onWheel(film, w[1], w[2], w[3], w[4])
       /\ ev' = Ev("onWheel", w)
  /\ FilmFrame

FilmPinchStart ==
  /\ page = "film" /\ Tick
  /\ film' = Film_onTouchStart2(film, QI(100), QI(200))
  /\ ev' = Ev("onTouchStart", <<QI(100), QI(200)>>)
  /\ FilmFrame

FilmPinchMove ==
  /\ page = "film" /\ Tick /\ film.touchMode # "none"
  /\ \E d \in PinchDists :
       /\ film' = Film_onTouchMove2(film, d)
       /\ ev' = Ev("onTouchMove", <<d>>)
  /\ FilmFrame

FilmTouchEnd ==
  /\ page = "film" /\ Tick /\ film.touchMode # "none"
  /\ film' = Film_onTouchEnd0(film)
  /\ ev' = Ev("onTouchEnd", <<>>)
  /\ FilmFrame

FilmZoomSlider ==
  /\ page = "film" /\ Tick
  /\ \E z \in ZoomValues :
       /\ film' = Film_zoomSlider(film, z)
       /\ ev' = Ev("zoomSlider", <<z>>)
  /\ FilmFrame

FitAll ==
  /\ page = "film" /\ Tick
  /\ film' = fitAll(film, QI(800))
  /\ ev' = Ev("fitAll", <<>>)
  /\ FilmFrame

FitSelected ==
  /\ page = "film" /\ Tick /\ film.selectedSceneId # NoId
  /\ film' = fitSelected(film, QI(800))
  /\ ev' = Ev("fitSelected", <<>>)
  /\ FilmFrame

FilmLoadProject ==
  /\ page = "film" /\ Tick
  /\ \E z \in FileZooms :
       /\ film' = Film_loadProject(film, [ProjectA EXCEPT !.zoom = z])
       /\ ev' = Ev("loadProject", <<z>>)
  /\ FilmFrame

MusicWheel ==
  /\ page = "music" /\ Tick
  /\ \E w \in WheelEvents :
       /\ music' = Music_onWheel(music, w[1], w[2], w[3], w[4])
       /\ ev' = Ev("onWheel", w)
  /\ MusicFrame

MusicPinchStart ==
  /\ page = "music" /\ Tick
  /\ music' = Music_onTouchStart2(music, QI(100), QI(200))
  /\ ev' = Ev("onTouchStart", <<QI(100), QI(200)>>)
  /\ MusicFrame

MusicPinchMove ==
  /\ page = "music" /\ Tick /\ music.touchMode # "none"
  /\ \E d \in PinchDists :
       /\ music' = Music_onTouchMove2(music, d)
       /\ ev' = Ev("onTouchMove", <<d>>)
  /\ MusicFrame

MusicTouchEnd ==
  /\ page = "music" /\ Tick /\ music.touchMode # "none"
  /\ music' = Music_onTouchEnd0(music)
  /\ ev' = Ev("onTouchEnd", <<>>)
  /\ MusicFrame

MusicSetZoom ==
  /\ page = "music" /\ Tick
  /\ \E z \in ZoomValues :
       /\ music' = Music_setZoom(music, z)
       /\ ev' = Ev("setZoom", <<z>>)
  /\ MusicFrame

MinimapWindowResize ==
  /\ page = "music" /\ Tick
  /\ \E r \in WindowResizes :
       /\ music' = onWindowResize(music, r[1], r[2])
       /\ ev' = Ev("onWindowResize", r)
  /\ MusicFrame

NewCanvas ==
  /\ page = "music" /\ Tick
  /\ music' = newCanvas(music)
  /\ ev' = Ev("newCanvas", <<>>)
  /\ MusicFrame

MusicLoadProject ==
  /\ page = "music" /\ Tick
  /\ \E z \in FileZooms :
       /\ music' = Music_loadProject(music, MusicFile(z))
       /\ ev' = Ev("loadProject", <<z>>)
  /\ MusicFrame

(* ----------------------------- pointer down ---------------------------- *)
MaxPointerEvents == 7
MaxMarkers == 1
MaxLyrics == 1

(* Project B, autosaved by the film editor: one scene with an image card
   and a note, both dragged up over the scene's rectangle.  At zoom 10 the
   scene covers x 0..300, y 12..102, the image card x 12..192, y 50..160,
   the note x 12..192, y 98..208. *)
ProjectB ==
  [ProjectA EXCEPT
     !.projectName = "B",
     !.scenes = <<[SavedScene(1, 1, 0) EXCEPT
                     !.imageUrl = TRUE,
                     !.imageMeta = [relX |-> QI(12), relY |-> QI(-60),
                                    width |-> QI(IMAGE_CARD_W),
                                    height |-> QI(IMAGE_CARD_H)]]>>,
     !.notes = <<[SavedNote(2, 1, 0) EXCEPT !.relY = QI(-130)]>>]

(* Project N, autosaved by the music editor: one note at 2 s, dragged down
   to y 185, where lyric clips are drawn (canvas height 400) *)
ProjectN ==
  [MusicFile(QI(100)) EXCEPT
     !.notes = <<[id |-> 1, timestampSec |-> QI(2), xOffsetPx |-> Zero,
                  yPx |-> QI(185), w |-> QI(160), h |-> QI(26),
                  collapsed |-> FALSE]>>]

(* film: inside note, image card and scene; inside image card and scene;
   inside the scene only; on the background *)
FilmHitPoints == {<<100, 100>>, <<100, 60>>, <<250, 60>>, <<100, 300>>}
(* music: at loop handle A; at 2 s, where handle B, a marker, the lyric clip
   and the note can meet; inside lyric clip and note; inside the note only;
   on the background *)
MusicHitPoints == {<<0, 190>>, <<200, 190>>, <<300, 190>>, <<355, 190>>, <<600, 190>>}
MusicMoveXs == {QI(0), QI(100), QI(500)}

FilmHitMouseDown ==
  /\ page = "film" /\ Tick
  /\ \E p \in FilmHitPoints :
       /\ film' = onMouseDown(film, QI(p[1]), QI(p[2]))
       /\ ev' = Ev("onMouseDown", <<QI(p[1]), QI(p[2])>>)
  /\ FilmFrame

MusicClick ==
  /\ page = "music" /\ Tick /\ ~music.isMouseDown
  /\ music' = Music_onClick(music, QI(200), QI(190))
  /\ ev' = Ev("onClick", <<QI(200), QI(190)>>)
  /\ MusicFrame

SetLoopA ==
  /\ page = "music" /\ Tick
  /\ music' = onSetLoopA(music)
  /\ ev' = Ev("onSetLoopA", <<>>)
  /\ MusicFrame

SetLoopB ==
  /\ page = "music" /\ Tick
  /\ music' = onSetLoopB(music)
  /\ ev' = Ev("onSetLoopB", <<>>)
  /\ MusicFrame

ClearLoop ==
  /\ page = "music" /\ Tick
  /\ music' = onClearLoop(music)
  /\ ev' = Ev("onClearLoop", <<>>)
  /\ MusicFrame

SetLoopEnabled ==
  /\ page = "music" /\ Tick
  /\ music' = setLoopEnabled(music, ~music.loopEnabled)
  /\ ev' = Ev("setLoopEnabled", <<>>)
  /\ MusicFrame

AddMarkerAtPlayhead ==
  /\ page = "music" /\ Tick /\ Len(music.markers) < MaxMarkers
  /\ music' = onAddMarkerAtPlayhead(music)
  /\ ev' = Ev("onAddMarkerAtPlayhead", <<>>)
  /\ MusicFrame

(* an aligned lyric line starting at 2 s, without an explicit end, whose
   text is estimated at 1.5 s *)
AddAlignedLyrics ==
  /\ page = "music" /\ Tick /\ Len(music.lyricsClips) < MaxLyrics
  /\ music' = addAlignedLyricLine(music, QI(2), NoNum, Q(3, 2))
  /\ ev' = Ev("addAlignedLyricsAsClips", <<>>)
  /\ MusicFrame

MusicMouseDown ==
  /\ page = "music" /\ Tick
  /\ \E p \in MusicHitPoints :
       /\ music' = Music_onMouseDown(music, QI(p[1]), QI(p[2]))
       /\ ev' = Ev("onMouseDown", <<QI(p[1]), QI(p[2])>>)
  /\ MusicFrame

MusicMouseMove ==
  /\ page = "music" /\ Tick /\ music.isMouseDown
  /\ \E x \in MusicMoveXs :
       /\ music' = Music_onMouseMove(music, x, QI(190), Zero, Zero, FALSE)
       /\ ev' = Ev("onMouseMove", <<x, QI(190)>>)
  /\ MusicFrame

MusicMouseUp ==
  /\ page = "music" /\ Tick
  /\ music' = Music_endDrag(music)
  /\ ev' = Ev("endDrag", <<>>)
  /\ MusicFrame

InitTime ==
  /\ page = "time"
  /\ film = FilmInit /\ music = MusicInit /\ ev = Ev("mount", <<>>) /\ budget = 0
  /\ \E t \in TimeInputs, z \in ZoomInputs, p \in PanInputs :
       calc = [CalcInit EXCEPT !.t = t, !.zoom = z, !.pan = p]

NextTime == CallTimeToX \/ CallXToTime

SpecTime == InitTime /\ [][NextTime]_vars

(* either editor mounted; the music editor without a track or with a track
   of 20 s *)
InitZoom ==
  /\ page \in {"film", "music"}
  /\ film \in {FilmInit, Film_loadProject(FilmInit, ProjectA)}
  /\ music \in {MusicInit, [MusicInit EXCEPT !.duration = QI(20)]}
  /\ page = "film" => music = MusicInit
  /\ page = "music" => film = FilmInit
  /\ calc = CalcInit /\ ev = Ev("mount", <<>>)
  /\ budget = MaxZoomEvents

NextZoom ==
  \/ FilmWheel \/ FilmPinchStart \/ FilmPinchMove \/ FilmTouchEnd
  \/ FilmZoomSlider \/ FitAll \/ FitSelected \/ FilmLoadProject
  \/ ModelMouseDown \/ MouseUp
  \/ MusicWheel \/ MusicPinchStart \/ MusicPinchMove \/ MusicTouchEnd
  \/ MusicSetZoom \/ MinimapWindowResize \/ NewCanvas \/ MusicLoadProject

SpecZoom == InitZoom /\ [][NextZoom]_vars

(* either editor mounted with its autosaved project restored *)
InitPointer ==
  /\ page \in {"film", "music"}
  /\ film = IF page = "film" THEN Film_loadProject(FilmInit, ProjectB) ELSE FilmInit
  /\ music = IF page = "music" THEN Music_loadProject(MusicInit, ProjectN)
             ELSE MusicInit
  /\ calc = CalcInit /\ ev = Ev("mount", <<>>)
  /\ budget = MaxPointerEvents

NextPointer ==
  \/ FilmHitMouseDown \/ MouseUp
  \/ MusicClick \/ SetLoopA \/ SetLoopB \/ ClearLoop \/ SetLoopEnabled
  \/ AddMarkerAtPlayhead \/ AddAlignedLyrics
  \/ MusicMouseDown \/ MusicMouseMove \/ MusicMouseUp

SpecPointer == InitPointer /\ [][NextPointer]_vars

InitFilmDrag ==
  /\ page = "film"
  /\ film \in {FilmInit, Film_loadProject(FilmInit, ProjectA)}
  /\ music = MusicInit /\ calc = CalcInit /\ ev = Ev("mount", <<>>)
  /\ budget = MaxDragEvents

NextFilmDrag ==
  \/ DragMouseDown \/ DragMouseMove \/ MouseUp
  \/ SetSnapEnabled \/ SetSnapStep \/ UpdateLength
  \/ AddScene \/ DeleteSelectedScene \/ Undo \/ ImportScript

SpecFilmDrag == InitFilmDrag /\ [][NextFilmDrag]_vars

(* ---------------------------- auto-placement --------------------------- *)
MaxPlaceEvents == 4

(* a saved project of three scenes: scene 1 (#1) from 0 to prevLen, scene 2
   (#3) from nextStart, and scene 3 (#4) of length len parked at 60 s; the
   pointer positions lie inside scene 3 and inside scene 1 at zoom 10 *)
PlacePrevLens == {QI(3), Q(13, 4)}
PlaceNextStarts == {QI(4), QI(6), QI(8)}
PlaceLens == {QI(1), QI(2)}
PlaceSteps == {QI(3), QI(10)}
PlacePoints == {<<605, 60>>, <<15, 60>>}
PlaceFile(prevLen, nextStart, len) ==
  [ProjectA EXCEPT
     !.projectName = "P",
     !.scenes = <<[SavedScene(1, 1, 0) EXCEPT !.lengthSec = prevLen],
                  [SavedScene(2, 3, 0) EXCEPT !.positionSec = nextStart],
                  [SavedScene(3, 4, 60) EXCEPT !.lengthSec = len]>>,
     !.notes = <<>>]

PlaceMouseDown ==
  /\ page = "film" /\ Tick
  /\ \E p \in PlacePoints :
       /\ film' = onMouseDown(film, QI(p[1]), QI(p[2]))
       /\ ev' = Ev("onMouseDown", p)
  /\ FilmFrame

PlaceSetSnapStep ==
  /\ page = "film" /\ Tick
  /\ \E v \in PlaceSteps :
       /\ film' = setSnapStep(film, v)
       /\ ev' = Ev("setSnapStep", <<v>>)
  /\ FilmFrame

InitPlace ==
  /\ page = "film"
  /\ \E e \in PlacePrevLens, s \in PlaceNextStarts, l \in PlaceLens :
       film = Film_loadProject(FilmInit, PlaceFile(e, s, l))
  /\ music = MusicInit /\ calc = CalcInit /\ ev = Ev("mount", <<>>)
  /\ budget = MaxPlaceEvents

NextPlace ==
  \/ PlaceMouseDown \/ MouseUp \/ PlaceSetSnapStep \/ SetSnapEnabled
  \/ UpdateOriginalNumber

SpecPlace == InitPlace /\ [][NextPlace]_vars

(* ------------------------- save / open project ------------------------- *)
MaxProjectEvents == 4

(* JSON.stringify then JSON.parse: a finite number comes back as it was, a
   non-finite one as null; strings, booleans and arrays come back as they
   were *)
jsonNumber(v) == IF v # NoNum /\ IsFinite(v) THEN v ELSE NoNum
jsonFile(p) ==
  [p EXCEPT !.zoom = jsonNumber(@), !.panX = jsonNumber(@),
            !.playheadSec = jsonNumber(@)]

(* calc: the project file last exported and the editor state it was made
   from *)
NoFile == [saved |-> FALSE, file |-> NoRec, at |-> NoRec]

(* the music editor with one note, one marker, one lyric clip and loop
   bounds, as the handlers build it from the restored project N *)
MusicFull ==
  LET m0 == Music_loadProject(MusicInit, ProjectN)
      m1 == onAddMarkerAtPlayhead(onSetLoopA(m0))
      m2 == addAlignedLyricLine(m1, QI(2), NoNum, Q(3, 2))
      m3 == Music_onClick(m2, QI(200), QI(190))
  IN onSetLoopB(m3)

(* project files the editors reject: a wrong kind, a wrong version, a
   collection that is not an array *)
FilmBadFiles ==
  {[ProjectA EXCEPT !.kind = "dtmusic"],
   [ProjectA EXCEPT !.version = 2],
   [ProjectA EXCEPT !.scenesIsArray = FALSE],
   [ProjectA EXCEPT !.notesIsArray = FALSE]}
MusicBadFiles ==
  {[MusicFile(QI(50)) EXCEPT !.kind = "dtfilm"],
   [MusicFile(QI(50)) EXCEPT !.version = 2],
   [MusicFile(QI(50)) EXCEPT !.notesIsArray = FALSE]}

FilmExportProject ==
  /\ page = "film" /\ Tick
  /\ calc' = [saved |-> TRUE, file |-> jsonFile(Film_makeProject(film)), at |-> film]
  /\ ev' = Ev("exportProject", <<>>)
  /\ UNCHANGED <<page, film, music>>

FilmOpenSaved ==
  /\ page = "film" /\ Tick /\ calc.saved
  /\ film' = Film_loadProject(film, calc.file)
  /\ ev' = Ev("openSaved", <<>>)
  /\ FilmFrame

FilmOpenBad ==
  /\ page = "film" /\ Tick
  /\ \E p \in FilmBadFiles :
       /\ film' = Film_loadProject(film, p)
       /\ ev' = Ev("openBad", <<p.kind, p.version, p.scenesIsArray, p.notesIsArray>>)
  /\ FilmFrame

MusicExportProject ==
  /\ page = "music" /\ Tick
  /\ calc' = [saved |-> TRUE, file |-> jsonFile(Music_makeProject(music)), at |-> music]
  /\ ev' = Ev("exportProject", <<>>)
  /\ UNCHANGED <<page, film, music>>

MusicOpenSaved ==
  /\ page = "music" /\ Tick /\ calc.saved
  /\ music' = Music_loadProject(music, calc.file)
  /\ ev' = Ev("openSaved", <<>>)
  /\ MusicFrame

MusicOpenBad ==
  /\ page = "music" /\ Tick
  /\ \E p \in MusicBadFiles :
       /\ music' = Music_loadProject(music, p)
       /\ ev' = Ev("openBad", <<p.kind, p.version, p.notesIsArray>>)
  /\ MusicFrame

InitProject ==
  /\ page \in {"film", "music"}
  /\ film = IF page = "film" THEN Film_loadProject(FilmInit, ProjectB) ELSE FilmInit
  /\ music \in {Music_loadProject(MusicInit, ProjectN), MusicFull, MusicInit}
  /\ page = "film" => music = MusicInit
  /\ page = "music" => music # MusicInit
  /\ calc = NoFile /\ ev = Ev("mount", <<>>)
  /\ budget = MaxProjectEvents

NextProject ==
  \/ FilmExportProject \/ FilmOpenSaved \/ FilmOpenBad
  \/ FilmHitMouseDown \/ MouseUp \/ DeleteSelectedScene \/ AddScene
  \/ AddNoteToSelectedScene \/ FilmWheel
  \/ MusicExportProject \/ MusicOpenSaved \/ MusicOpenBad
  \/ NewCanvas \/ MusicClick \/ MusicWheel \/ AddMarkerAtPlayhead \/ ClearLoop

SpecProject == InitProject /\ [][NextProject]_vars

(* ----------------------- asynchronous script import -------------------- *)
MaxImportEvents == 4

(* calc: the import in flight (the file is being read and parsed; the
   handler holds no editor state meanwhile), and whether a pointer gesture
   was in progress when the last import completed *)
NoImport == [busy |-> FALSE, pending |-> <<>>, carried |-> FALSE]

(* parsed scripts of two and of nine scenes *)
ImportEsts ==
  ParsedEsts \cup {<<QI(10), QI(10), QI(10), QI(10), QI(10), QI(10), QI(10),
                     QI(10), QI(20)>>}

ScriptFileChosen ==
  /\ page = "film" /\ Tick /\ ~calc.busy
  /\ \E ests \in ImportEsts :
       /\ calc' = [calc EXCEPT !.busy = TRUE, !.pending = ests]
       /\ ev' = Ev("onScriptFileChosen", ests)
  /\ UNCHANGED <<page, film, music>>

ScriptImportDone ==
  /\ page = "film" /\ calc.busy
  /\ film' = importScenes(film, layoutScenes(calc.pending))
  /\ calc' = [busy |-> FALSE, pending |-> <<>>, carried |-> film.isMouseDown]
  /\ ev' = Ev("importDone", calc.pending)
  /\ UNCHANGED <<page, music, budget>>

ImportMouseDown ==
  /\ page = "film" /\ Tick
  /\ \E p \in DragPoints :
       /\ film' = onMouseDown(film, QI(p[1]), QI(p[2]))
       /\ ev' = Ev("onMouseDown", p)
  /\ calc' = [calc EXCEPT !.carried = FALSE]
  /\ UNCHANGED <<page, music>>

ImportMouseUp ==
  /\ page = "film" /\ Tick
  /\ film' = endDrag(film)
  /\ ev' = Ev("endDrag", <<>>)
  /\ calc' = [calc EXCEPT !.carried = FALSE]
  /\ UNCHANGED <<page, music>>

InitImport ==
  /\ page = "film"
  /\ film \in {FilmInit, Film_loadProject(FilmInit, ProjectA)}
  /\ music = MusicInit /\ calc = NoImport /\ ev = Ev("mount", <<>>)
  /\ budget = MaxImportEvents

NextImport ==
  \/ ScriptFileChosen \/ ScriptImportDone
  \/ ImportMouseDown \/ DragMouseMove \/ ImportMouseUp
  \/ AddScene \/ AddNoteToSelectedScene \/ DeleteSelectedScene \/ UpdateLength

SpecImport == InitImport /\ [][NextImport]_vars

(* ------------------------------ clampPanX ------------------------------ *)
(* pans and zooms handed to clampPanX, track durations (0: no track) and
   canvas widths (0: the canvas is not laid out) *)
ClampPans == {QI(-5000), QI(-1500), Q(-501, 2), QI(-1), Zero, QI(75)}
ClampZooms == {QI(-2), Zero, Q(1, 2), QI(1), Q(3, 2), QI(40), QI(100), QI(300)}
ClampDurations == {Zero, QI(10), QI(20)}
ClampWidths == {Zero, QI(800)}
ClampInit == [fn |-> "none", p |-> Zero, z |-> QI(1), once |-> NoNum, twice |-> NoNum]

CallClampPanX ==
  /\ page = "clampPanX" /\ calc.fn = "none"
  /\ calc' = [calc EXCEPT !.fn = "once", !.once = clampPanX(music, calc.p, calc.z)]
  /\ ev' = Ev("clampPanX", <<calc.p, calc.z>>)
  /\ UNCHANGED <<page, film, music, budget>>

CallClampPanXAgain ==
  /\ page = "clampPanX" /\ calc.fn = "once"
  /\ calc' = [calc EXCEPT !.fn = "twice", !.twice = clampPanX(music, calc.once, calc.z)]
  /\ ev' = Ev("clampPanX", <<calc.once, calc.z>>)
  /\ UNCHANGED <<page, film, music, budget>>

InitClamp ==
  /\ page = "clampPanX"
  /\ film = FilmInit /\ ev = Ev("mount", <<>>) /\ budget = 0
  /\ \E d \in ClampDurations, w \in ClampWidths :
       music = [MusicInit EXCEPT !.duration = d, !.canvasW = w, !.viewportW = w]
  /\ \E p \in ClampPans, z \in ClampZooms : calc = [ClampInit EXCEPT !.p = p, !.z = z]

NextClamp == CallClampPanX \/ CallClampPanXAgain

SpecClamp == InitClamp /\ [][NextClamp]_vars

(* --------------------------- vertical pan ------------------------------ *)
MaxPanYEvents == 4

(* the effect that re-clamps panY when the viewport height or the content
   height has changed; it runs after every update that changes either *)
panYEffect_None(m) == m
panYEffect(m) == [m EXCEPT !.panY = clampPanY(m, @, m.viewportH)]

(* the canvas resize observer reports a new client height *)
onViewportResize(m, h) == [m EXCEPT !.viewportH = h, !.canvasH = h]

(* the vertical minimap's onJumpY / onWindowChangeY / onWindowResizeY *)
onJumpY(m, topPx) == [m EXCEPT !.panY = clampPanY(m, QNeg(topPx), m.viewportH)]

resetViewPosition(m) ==
  LET viewDur == QDiv(m.canvasW, QMax(QI(1), m.zoom))
      targetStartSec ==
        QMax(Zero, QMin(QMax(Zero, QSub(m.playheadSec, QDiv(viewDur, QI(2)))),
                        QMax(Zero, QSub(m.duration, viewDur))))
  IN IF m.canvasW = Zero \/ m.zoom = Zero
       THEN [m EXCEPT !.panY = Zero, !.panX = Zero]
     ELSE [m EXCEPT !.panY = Zero,
                    !.panX = clampPanX(m, QNeg(QMul(targetStartSec, m.zoom)), m.zoom)]

onDeleteSelected(m) ==
  LET KeepMarker(k) == k.id # m.selectedMarkerId
      KeepNote(n) == n.id # m.selectedNoteId
      KeepLyric(c) == c.id # m.selectedLyricId
  IN IF m.selectedMarkerId # NoId
       THEN [m EXCEPT !.markers = SelectSeq(@, KeepMarker), !.selectedMarkerId = NoId]
     ELSE IF m.selectedNoteId # NoId
       THEN [m EXCEPT !.notes = SelectSeq(@, KeepNote), !.selectedNoteId = NoId]
     ELSE IF m.selectedLyricId # NoId
       THEN [m EXCEPT !.lyricsClips = SelectSeq(@, KeepLyric), !.selectedLyricId = NoId]
     ELSE m

(* onTouchStart and onTouchMove with one touch at (x, y) *)
Music_onTouchStart1(m, x, y) ==
  LET hit == hitTestNote(m, x, y)
      Toggle(n) == IF n.id = hit.id THEN [n EXCEPT !.collapsed = ~@] ELSE n
  IN IF hit # NoRec THEN
       IF hitToggleZone(m, hit, x, y) THEN
         [m EXCEPT !.notes = SeqMap(Toggle, @), !.selectedNoteId = hit.id,
                   !.touchDrag = [mode |-> "none"]]
       ELSE
         [m EXCEPT !.touchDrag = [mode |-> "note", id |-> hit.id, startX |-> x,
                                  startY |-> y,
                                  noteStart |-> [timestampSec |-> hit.timestampSec,
                                                 xOffsetPx |-> hit.xOffsetPx,
                                                 yPx |-> hit.yPx]],
                   !.selectedNoteId = hit.id,
                   !.playheadSec = QMax(Zero, cssToWorldTime(m, x))]
     ELSE [m EXCEPT !.touchDrag = [mode |-> "pan"], !.touchMode = "pan",
                    !.touchLast = [x |-> x, y |-> y],
                    !.playheadSec = QMax(Zero, cssToWorldTime(m, x))]

Music_onTouchMove1(m, x, y) ==
  LET drag == m.touchDrag
      dx == QSub(x, drag.startX)
      dy == QSub(y, drag.startY)
      MvNote(n) ==
        IF n.id # drag.id THEN n
        ELSE IF ~m.dragMovesTimestamp
          THEN [n EXCEPT !.xOffsetPx = QAdd(drag.noteStart.xOffsetPx, dx),
                         !.yPx = QMax(Zero, QAdd(drag.noteStart.yPx, dy))]
        ELSE LET newLeftPx == QAdd(QAdd(worldTimeToCss(m, drag.noteStart.timestampSec),
                                        drag.noteStart.xOffsetPx), dx)
             IN [n EXCEPT !.timestampSec =
                            QMax(Zero, cssToWorldTime(m, QSub(newLeftPx, n.xOffsetPx))),
                          !.yPx = QMax(Zero, QAdd(drag.noteStart.yPx, dy))]
  IN IF drag.mode = "note" THEN [m EXCEPT !.notes = SeqMap(MvNote, @)]
     ELSE IF m.touchMode = "pan" THEN
       IF m.touchLast = NoRec THEN [m EXCEPT !.touchLast = [x |-> x, y |-> y]]
       ELSE [m EXCEPT !.touchLast = [x |-> x, y |-> y],
                      !.panX = clampPanX(m, QAdd(@, QSub(x, m.touchLast.x)), m.zoom),
                      !.panY = clampPanY(m, QAdd(@, QSub(y, m.touchLast.y)),
                                         m.viewportH)]
     ELSE m

(* project D, autosaved by the music editor: one note far down the canvas,
   which makes the content taller than the 1200 px baseline *)
ProjectD ==
  [ProjectN EXCEPT !.projectName = "D", !.notes[1].yPx = QI(1500)]

(* pointer positions: inside the note of project N, inside the note of
   project D once scrolled to the bottom, on the background; pointer moves
   <<y, movementY>>; wheel deltas; minimap positions; viewport heights *)
PanYPoints == {<<250, 190>>, <<250, 330>>, <<600, 50>>}
PanYMoves == {<<QI(1400), QI(1210)>>, <<QI(100), QI(-2000)>>}
PanYTouchYs == {QI(1400), QI(-2000)}
PanYWheels == {QI(3000), QI(-500)}
PanYJumps == {Zero, QI(500), QI(5000)}
PanYHeights == {QI(400), QI(1000), QI(1500)}

PanYWheel ==
  /\ page = "music" /\ Tick
  /\ \E d \in PanYWheels :
       /\ music' = panYEffect(Music_onWheel(music, FALSE, QI(250), Zero, d))
       /\ ev' = Ev("onWheel", <<d>>)
  /\ MusicFrame

PanYMouseDown ==
  /\ page = "music" /\ Tick
  /\ \E p \in PanYPoints :
       /\ music' = panYEffect(Music_onMouseDown(music, QI(p[1]), QI(p[2])))
       /\ ev' = Ev("onMouseDown", p)
  /\ MusicFrame

PanYMouseMove ==
  /\ page = "music" /\ Tick /\ music.isMouseDown
  /\ \E mv \in PanYMoves :
       /\ music' = panYEffect(Music_onMouseMove(music, QI(250), mv[1], Zero, mv[2], FALSE))
       /\ ev' = Ev("onMouseMove", mv)
  /\ MusicFrame

PanYTouchStart ==
  /\ page = "music" /\ Tick
  /\ \E p \in PanYPoints :
       /\ music' = panYEffect(Music_onTouchStart1(music, QI(p[1]), QI(p[2])))
       /\ ev' = Ev("onTouchStart", p)
  /\ MusicFrame

PanYTouchMove ==
  /\ page = "music" /\ Tick /\ music.touchDrag.mode # "none"
  /\ \E y \in PanYTouchYs :
       /\ music' = panYEffect(Music_onTouchMove1(music, QI(250), y))
       /\ ev' = Ev("onTouchMove", <<y>>)
  /\ MusicFrame

PanYTouchEnd ==
  /\ page = "music" /\ Tick /\ music.touchDrag.mode # "none"
  /\ music' = Music_onTouchEnd0(music)
  /\ ev' = Ev("onTouchEnd", <<>>)
  /\ MusicFrame

JumpY ==
  /\ page = "music" /\ Tick
  /\ \E t \in PanYJumps :
       /\ music' = onJumpY(music, t)
       /\ ev' = Ev("onJumpY", <<t>>)
  /\ MusicFrame

PanYAddNote ==
  /\ page = "music" /\ Tick /\ Len(music.notes) < 2
  /\ music' = panYEffect(addNote(music))
  /\ ev' = Ev("addNote", <<>>)
  /\ MusicFrame

DeleteSelected ==
  /\ page = "music" /\ Tick
  /\ music.selectedNoteId # NoId \/ music.selectedLyricId # NoId
       \/ music.selectedMarkerId # NoId
  /\ music' = panYEffect(onDeleteSelected(music))
  /\ ev' = Ev("onDeleteSelected", <<>>)
  /\ MusicFrame

ViewportResize ==
  /\ page = "music" /\ Tick
  /\ \E h \in PanYHeights :
       /\ music' = panYEffect(onViewportResize(music, h))
       /\ ev' = Ev("onViewportResize", <<h>>)
  /\ MusicFrame

ResetView ==
  /\ page = "music" /\ Tick
  /\ music' = resetViewPosition(music)
  /\ ev' = Ev("resetViewPosition", <<>>)
  /\ MusicFrame

PanYNewCanvas ==
  /\ page = "music" /\ Tick
  /\ music' = panYEffect(newCanvas(music))
  /\ ev' = Ev("newCanvas", <<>>)
  /\ MusicFrame

InitPanY ==
  /\ page = "music" /\ film = FilmInit
  /\ music \in {Music_loadProject(MusicInit, ProjectN),
                panYEffect(Music_loadProject(MusicInit, ProjectD))}
  /\ calc = CalcInit /\ ev = Ev("mount", <<>>)
  /\ budget = MaxPanYEvents

NextPanY ==
  \/ PanYWheel \/ PanYMouseDown \/ PanYMouseMove \/ MusicMouseUp
  \/ PanYTouchStart \/ PanYTouchMove \/ PanYTouchEnd \/ JumpY
  \/ PanYAddNote \/ DeleteSelected \/ ViewportResize \/ ResetView \/ PanYNewCanvas

SpecPanY == InitPanY /\ [][NextPanY]_vars

(* ----------------------- mapping with a zero zoom ---------------------- *)
(* x positions, zooms and pans handed to the pixel-to-time mappings; the
   editors hold the zoom and pan a project file brought in (the film editor
   clamps the zoom on load, the music editor stores it as it is) *)
GuardXs == {QI(-40), Zero, QI(250)}
GuardZooms == {Zero, QI(1), QI(100)}

CallXToTimeAt ==
  /\ page = "mapping" /\ calc.fn = "none"
  /\ calc' = [calc EXCEPT !.fn = "xToTime", !.back = xToTime(calc.x, calc.zoom, calc.pan)]
  /\ ev' = Ev("xToTime", <<calc.x, calc.zoom, calc.pan>>)
  /\ UNCHANGED <<page, film, music, budget>>

CallCssToWorldTime ==
  /\ page = "mapping" /\ calc.fn = "none"
  /\ calc' = [calc EXCEPT !.fn = "cssToWorldTime", !.zoom = music.zoom,
                          !.back = cssToWorldTime(music, calc.x)]
  /\ ev' = Ev("cssToWorldTime", <<calc.x, music.zoom, music.panX>>)
  /\ UNCHANGED <<page, film, music, budget>>

CallCssToSec ==
  /\ page = "mapping" /\ calc.fn = "none"
  /\ calc' = [calc EXCEPT !.fn = "cssToSec", !.zoom = film.zoom,
                          !.back = cssToSec(film, calc.x)]
  /\ ev' = Ev("cssToSec", <<calc.x, film.zoom, film.panX>>)
  /\ UNCHANGED <<page, film, music, budget>>

InitGuard ==
  /\ page = "mapping" /\ ev = Ev("mount", <<>>) /\ budget = 0
  /\ \E x \in GuardXs, z \in GuardZooms, p \in PanInputs :
       /\ calc = [CalcInit EXCEPT !.x = x, !.zoom = z, !.pan = p]
       /\ music = Music_loadProject(MusicInit, [MusicFile(z) EXCEPT !.panX = p])
       /\ film = Film_loadProject(FilmInit, [ProjectA EXCEPT !.zoom = z, !.panX = p])

NextGuard == CallXToTimeAt \/ CallCssToWorldTime \/ CallCssToSec

SpecGuard == InitGuard /\ [][NextGuard]_vars

(* --------------------------- grid step --------------------------------- *)
(* the film editor's ruler step *)
Film_pickGridStepSec(z) ==
  LET raw == QDiv(QI(120), z)
      steps == <<Q(1, 4), Q(1, 2), QI(1), QI(2), QI(3), QI(5), QI(10), QI(15),
                 QI(30), QI(60), QI(120), QI(300), QI(600)>>
      fits == {i \in DOMAIN steps : QLe(raw, steps[i])}
  IN IF fits = {} THEN QI(1200)
     ELSE steps[CHOOSE i \in fits : \A j \in fits : i <= j]

(* zooms of [MIN_ZOOM, MAX_ZOOM], on and around every threshold 120 / step *)
GridZooms ==
  {QI(1), QI(2), Q(12, 5), QI(4), QI(8), QI(12), QI(24), QI(39), QI(40),
   QI(41), QI(59), QI(60), QI(61), QI(120), QI(240), QI(300), QI(480), QI(500)}
FilmGridZooms == {z \in GridZooms : QLe(QI(Film_MIN_ZOOM), z) /\ QLe(z, QI(Film_MAX_ZOOM))}
MusicGridZooms == {z \in GridZooms : QLe(QI(Music_MIN_ZOOM), z) /\ QLe(z, QI(Music_MAX_ZOOM))}

GridInit ==
  [fn |-> "none", zoom |-> QI(1), step |-> NoNum,
   prevFn |-> "none", prevZoom |-> QI(1), prevStep |-> NoNum]

GridCall(fn, z, step) ==
  [fn |-> fn, zoom |-> z, step |-> step,
   prevFn |-> calc.fn, prevZoom |-> calc.zoom, prevStep |-> calc.step]

CallFilmPickGridStepSec ==
  /\ page = "grid"
  /\ \E z \in FilmGridZooms :
       /\ calc' = GridCall("film", z, Film_pickGridStepSec(z))
       /\ ev' = Ev("filmPickGridStepSec", z)
  /\ UNCHANGED <<page, film, music, budget>>

CallMusicPickGridStepSec ==
  /\ page = "grid"
  /\ \E z \in MusicGridZooms :
       /\ calc' = GridCall("music", z, Music_pickGridStepSec(z))
       /\ ev' = Ev("musicPickGridStepSec", z)
  /\ UNCHANGED <<page, film, music, budget>>

InitGrid ==
  /\ page = "grid"
  /\ film = FilmInit /\ music = MusicInit
  /\ ev = Ev("mount", <<>>) /\ budget = 0
  /\ calc = GridInit

NextGrid == CallFilmPickGridStepSec \/ CallMusicPickGridStepSec

SpecGrid == InitGrid /\ [][NextGrid]_vars

(* --------------------------- script parsing ---------------------------- *)
(* a script is modelled by the types of its lines, in order: for parseScript
   the types classify gives them, for importFdxToScenes the Type attributes
   of the paragraphs. A run [type, n] stands for n consecutive lines of one
   type; headings come one at a time *)
Run(type, n) == [type |-> type, n |-> n]
lineSeconds(type) ==
  CASE type = "action" -> QI(2)
    [] type = "dialogue" -> Q(3, 2)
    [] type = "parenthetical" -> Q(4, 5)
    [] type = "lyric" -> Q(6, 5)
    [] OTHER -> Zero

toLineTypeFromFDX(elemType) ==
  CASE elemType = "Scene Heading" -> "scene"
    [] elemType = "Action" -> "action"
    [] elemType = "Character" -> "character"
    [] elemType = "Parenthetical" -> "parenthetical"
    [] elemType = "Dialogue" -> "dialogue"
    [] elemType = "Transition" -> "transition"
    [] OTHER -> "action"

(* the estimate of a scene: the sum of its lines' seconds, clamped to
   10..180 *)
sceneEstSeconds(lines) ==
  LET RECURSIVE Sum(_)
      Sum(i) == IF i = 0 THEN Zero
                ELSE QAdd(Sum(i - 1),
                          QMul(QI(lines[i].n), lineSeconds(lines[i].type)))
  IN QMax(QI(10), QMin(Sum(Len(lines)), QI(180)))

(* the cursor of the sequential layout after scene s *)
nextCursor_NoLength(cursor, s) == QAdd(cursor, QI(1))
nextCursor(cursor, s) == QAdd(cursor, QAdd(s.estLengthSec, QI(1)))

layOutSequentially(scenes) ==
  LET RECURSIVE CursorAt(_)
      CursorAt(i) == IF i = 1 THEN Zero
                     ELSE nextCursor(CursorAt(i - 1), scenes[i - 1])
  IN [i \in DOMAIN scenes |-> [scenes[i] EXCEPT !.positionSec = CursorAt(i)]]

(* flushScene / flush: the open scene gets its estimate and joins the list *)
flushScene(scenes, cur) ==
  IF cur = NoRec THEN scenes
  ELSE Append(scenes, [index |-> cur.index,
                       estLengthSec |-> sceneEstSeconds(cur.lines),
                       positionSec |-> Zero])

(* the loop that splits the lines into scenes; isHeading[i] says that line i
   is a scene heading, types[i] is the line type pushed otherwise *)
splitScenes(isHeading, types) ==
  LET RECURSIVE Walk(_, _, _, _)
      Walk(i, scenes, cur, sceneIndex) ==
        IF i > Len(types) THEN flushScene(scenes, cur)
        ELSE IF isHeading[i]
          THEN Walk(i + 1, flushScene(scenes, cur),
                    [index |-> sceneIndex + 1, lines |-> <<>>], sceneIndex + 1)
        ELSE IF cur = NoRec
          THEN Walk(i + 1, scenes, [index |-> 1, lines |-> <<types[i]>>], 1)
        ELSE Walk(i + 1, scenes, [cur EXCEPT !.lines = Append(@, types[i])],
                  sceneIndex)
  IN Walk(1, <<>>, NoRec, 0)

parseScript(types) ==
  layOutSequentially(
    splitScenes([i \in DOMAIN types |-> types[i].type = "scene"], types))

importFdxToScenes(elemTypes) ==
  layOutSequentially(
    splitScenes(
      [i \in DOMAIN elemTypes |-> elemTypes[i].type = "Scene Heading"],
      [i \in DOMAIN elemTypes |->
         Run(toLineTypeFromFDX(elemTypes[i].type), elemTypes[i].n)]))

(* scripts: up to MaxBlocks blocks, each a run of lines *)
MaxBlocks == 3
ScriptBlocks ==
  {<<Run("action", 1)>>, <<Run("scene", 1)>>,
   <<Run("scene", 1), Run("dialogue", 7)>>,
   <<Run("scene", 1), Run("character", 1), Run("parenthetical", 13)>>,
   <<Run("scene", 1), Run("action", 91)>>,
   <<Run("scene", 1), Run("lyric", 9)>>}
FdxBlocks ==
  {<<Run("Action", 1)>>, <<Run("Scene Heading", 1)>>,
   <<Run("Scene Heading", 1), Run("Dialogue", 7)>>,
   <<Run("Scene Heading", 1), Run("Character", 1), Run("Parenthetical", 13)>>,
   <<Run("Scene Heading", 1), Run("Action", 91)>>,
   <<Run("Scene Heading", 1), Run("Lyrics", 1), Run("Transition", 2)>>}
Concat(blocks) ==
  LET RECURSIVE Upto(_)
      Upto(i) == IF i = 0 THEN <<>> ELSE Upto(i - 1) \o blocks[i]
  IN Upto(Len(blocks))
ScriptsOf(B) ==
  {Concat(bs) : bs \in UNION {[1..n -> B] : n \in 1..MaxBlocks}}

ParseInit == [fn |-> "none", ext |-> "pdf", lines |-> <<>>, parsed |-> <<>>]

CallParseScript ==
  /\ page = "parse" /\ calc.fn = "none" /\ calc.ext = "pdf"
  /\ calc' = [calc EXCEPT !.fn = "parsed", !.parsed = parseScript(calc.lines)]
  /\ ev' = Ev("parseScript", calc.lines)
  /\ UNCHANGED <<page, film, music, budget>>

CallImportFdxToScenes ==
  /\ page = "parse" /\ calc.fn = "none" /\ calc.ext = "fdx"
  /\ calc' = [calc EXCEPT !.fn = "parsed",
                          !.parsed = importFdxToScenes(calc.lines)]
  /\ ev' = Ev("importFdxToScenes", calc.lines)
  /\ UNCHANGED <<page, film, music, budget>>

(* onScriptFileChosen after the parse: the mapping to the editor's scenes *)
ImportParsed ==
  /\ page = "parse" /\ calc.fn = "parsed"
  /\ calc' = [calc EXCEPT !.fn = "imported"]
  /\ film' = importScenes(film, calc.parsed)
  /\ ev' = Ev("onScriptFileChosen", calc.ext)
  /\ UNCHANGED <<page, music, budget>>

InitParse ==
  /\ page = "parse"
  /\ film \in {FilmInit, Film_loadProject(FilmInit, ProjectA)}
  /\ music = MusicInit /\ ev = Ev("mount", <<>>) /\ budget = 0
  /\ \/ \E s \in ScriptsOf(ScriptBlocks) :
          calc = [ParseInit EXCEPT !.ext = "pdf", !.lines = s]
     \/ \E s \in ScriptsOf(FdxBlocks) :
          calc = [ParseInit EXCEPT !.ext = "fdx", !.lines = s]

NextParse == CallParseScript \/ CallImportFdxToScenes \/ ImportParsed

SpecParse == InitParse /\ [][NextParse]_vars

(* --------------------------- formatTime -------------------------------- *)
(* strings are sequences of characters *)
DigitChar(d) == <<"0", "1", "2", "3", "4", "5", "6", "7", "8", "9">>[d + 1]

(* Number.prototype.toString of a whole number n >= 0 *)
toString(n) ==
  LET RECURSIVE Digits(_)
      Digits(k) == IF k < 10 THEN <<DigitChar(k)>>
                   ELSE Append(Digits(k \div 10), DigitChar(k % 10))
  IN Digits(n)

padStart_None(s, targetLength, padChar) == s
padStart(s, targetLength, padChar) ==
  IF Len(s) >= targetLength THEN s
  ELSE [i \in 1..(targetLength - Len(s)) |-> padChar] \o s

(* the remainder a % b of JavaScript for a >= 0 and b > 0 *)
QRem(a, b) == QSub(a, QMul(b, MathFloor(QDiv(a, b))))

formatTime(sec0) ==
  LET sec == IF ~IsFinite(sec0) \/ QLt(sec0, Zero) THEN Zero ELSE sec0
      h == Num(MathFloor(QDiv(sec, QI(3600))))
      m == Num(MathFloor(QDiv(QRem(sec, QI(3600)), QI(60))))
      s == Num(MathFloor(QRem(sec, QI(60))))
  IN IF h > 0
       THEN toString(h) \o <<":">> \o padStart(toString(m), 2, "0")
            \o <<":">> \o padStart(toString(s), 2, "0")
       ELSE toString(m) \o <<":">> \o padStart(toString(s), 2, "0")

(* inputs: whole seconds around every carry, times with a fraction, negative
   and non-finite values *)
FormatWholeSecs ==
  (0..70) \cup {119, 120, 599, 600, 601, 3599, 3600, 3601, 3661, 7325, 35999,
                36000, 86399, 360000}
FormatSecs ==
  {QI(n) : n \in FormatWholeSecs}
    \cup {Q(119, 2), Q(7199, 2), QI(-5), Q(-1, 2), <<0, 0>>, <<1, 0>>, <<-1, 0>>}

FormatInit == [fn |-> "none", sec |-> Zero, out |-> <<>>]

CallFormatTime ==
  /\ page = "formatTime" /\ calc.fn = "none"
  /\ calc' = [calc EXCEPT !.fn = "formatTime", !.out = formatTime(calc.sec)]
  /\ ev' = Ev("formatTime", calc.sec)
  /\ UNCHANGED <<page, film, music, budget>>

InitFormat ==
  /\ page = "formatTime"
  /\ film = FilmInit /\ music = MusicInit
  /\ ev = Ev("mount", <<>>) /\ budget = 0
  /\ \E sec \in FormatSecs : calc = [FormatInit EXCEPT !.sec = sec]

NextFormat == CallFormatTime

SpecFormat == InitFormat /\ [][NextFormat]_vars

(* --------------------------- pointer gestures -------------------------- *)
MaxGestureEvents == 4

(* Project G, autosaved by the film editor: project A with an image card
   under scene 2.  At zoom 10 scene 1 covers x 0..300 and scene 2 x 310..610,
   both y 12..102; the note of scene 1 covers x 12..192, y 110..220 and the
   image card of scene 2 x 322..502, y 110..220. *)
ProjectG ==
  [ProjectA EXCEPT
     !.projectName = "G",
     !.scenes[2].imageUrl = TRUE,
     !.scenes[2].imageMeta = [relX |-> QI(12), relY |-> Zero,
                              width |-> QI(IMAGE_CARD_W),
                              height |-> QI(IMAGE_CARD_H)]]

FilmG == Film_loadProject(FilmInit, ProjectG)

(* the same editor after a marquee was drawn from (250, 5) to (320, 40),
   which selects both scenes, the pointer released and the click at
   (320, 40) delivered *)
FilmGMulti ==
  [FilmG EXCEPT !.multiSelIds = {1, 2}, !.playheadSec = QI(32),
                !.dragStart = [cx |-> QI(250), cy |-> QI(5)]]

(* the gesture that leaves the film editor as FilmGMulti *)
FilmGMultiByGesture ==
  onClick(endDrag(onMouseMove(onMouseDown(FilmG, QI(250), QI(5)),
                              QI(320), QI(40), QI(70))),
          QI(320), QI(40))

(* the project of the music fixtures: a note at 2 s, y 185 and a note at
   2 s, y 1500 *)
ProjectG2 ==
  [ProjectN EXCEPT
     !.projectName = "G",
     !.notes = Append(@, [ProjectN.notes[1] EXCEPT
                            !.id = 2, !.yPx = QI(1500)])]

(* the music editor on that project after a marker was added at 5 s, the
   loop set to 0..2 s and enabled, a lyric clip 2..3.5 s added and the
   background clicked at 6 s; and the same scrolled down to the bottom, where
   the second note shows at y 314..340 *)
MusicG ==
  [Music_loadProject(MusicInit, ProjectG2) EXCEPT
     !.markers = <<[id |-> 3, sec |-> QI(5)]>>, !.selectedMarkerId = 3,
     !.loopA = Zero, !.loopB = QI(2), !.loopEnabled = TRUE,
     !.lyricsClips = <<[id |-> 4, timestampSec |-> QI(2), endSec |-> Q(7, 2),
                        w |-> NoNum, h |-> QI(40)]>>,
     !.playheadSec = QI(6)]

MusicGScrolled == [MusicG EXCEPT !.panY = QI(-1186)]

(* the toolbar commands, clicks and wheel turn that leave the music editor
   as MusicG and as MusicGScrolled *)
MusicGByGesture ==
  LET m0 == Music_loadProject(MusicInit, ProjectG2)
      m1 == onAddMarkerAtPlayhead(Music_onClick(m0, QI(500), QI(50)))
      m2 == onSetLoopA(Music_onClick(m1, QI(0), QI(50)))
      m3 == setLoopEnabled(onSetLoopB(Music_onClick(m2, QI(200), QI(50))), TRUE)
      m4 == addAlignedLyricLine(m3, QI(2), NoNum, Q(3, 2))
  IN Music_onClick(m4, QI(600), QI(50))

MusicGScrolledByWheel ==
  panYEffect(Music_onWheel(MusicG, FALSE, QI(250), Zero, QI(3000)))

(* film pointer-downs: note of scene 1, image card of scene 2, body, left
   handle and right handle of a scene, the chevron of scene 1, the
   background above the scenes and between them, the right handle of
   scene 2 *)
GestureFilmDowns ==
  {<<100, 150>>, <<400, 150>>, <<100, 60>>, <<312, 60>>, <<296, 60>>,
   <<2, 60>>, <<10, 24>>, <<250, 5>>, <<305, 60>>, <<606, 60>>}
GestureFilmMoves ==
  {<<150, 60>>, <<307, 60>>, <<700, 60>>, <<320, 40>>, <<295, 90>>, <<0, 60>>}

(* music pointer-downs: loop handle A, loop handle B, the marker, the lyric
   clip over the first note, the first note alone, the background, the
   second note once scrolled to the bottom *)
GestureMusicDowns ==
  {<<0, 190>>, <<200, 190>>, <<500, 190>>, <<300, 190>>, <<355, 190>>,
   <<600, 50>>, <<250, 330>>}
GestureMusicMoves == {<<100, 190>>, <<450, 200>>, <<250, 100>>}

(* calc follows the gesture: its phase, the pointer's position, whether the
   pointer has moved since the pointer-down, the editor as the pointer-down
   left it, and the states of the Shift key the moves have come with *)
GestureInit ==
  [phase |-> "idle", at |-> <<Zero, Zero>>, moved |-> FALSE, start |-> NoRec,
   keys |-> {}]

GestureFilmDown ==
  /\ page = "film" /\ Tick /\ calc.phase = "idle"
  /\ \E p \in GestureFilmDowns :
       /\ film' = onMouseDown(film, QI(p[1]), QI(p[2]))
       /\ calc' = [phase |-> "down", at |-> <<QI(p[1]), QI(p[2])>>,
                   moved |-> FALSE, start |-> film',
                   keys |-> {}]
       /\ ev' = Ev("onMouseDown", p)
  /\ UNCHANGED <<page, music>>

GestureFilmMove ==
  /\ page = "film" /\ Tick /\ calc.phase = "down"
  /\ \E p \in GestureFilmMoves :
       /\ film' = onMouseMove(film, QI(p[1]), QI(p[2]),
                              QSub(QI(p[1]), calc.at[1]))
       /\ calc' = [calc EXCEPT !.at = <<QI(p[1]), QI(p[2])>>, !.moved = TRUE]
       /\ ev' = Ev("onMouseMove", p)
  /\ UNCHANGED <<page, music>>

GestureFilmUp ==
  /\ page = "film" /\ Tick /\ calc.phase = "down"
  /\ film' = endDrag(film)
  /\ calc' = [calc EXCEPT !.phase = "up"]
  /\ ev' = Ev("onMouseUp", <<>>)
  /\ UNCHANGED <<page, music>>

(* the click event the browser dispatches after a pointer-up on the canvas,
   at the pointer's position *)
GestureFilmClick ==
  /\ page = "film" /\ calc.phase = "up"
  /\ film' = onClick(film, calc.at[1], calc.at[2])
  /\ calc' = [calc EXCEPT !.phase = "idle"]
  /\ ev' = Ev("onClick", calc.at)
  /\ UNCHANGED <<page, music, budget>>

(* the pointer leaves the canvas during the gesture: no click follows *)
GestureFilmLeave ==
  /\ page = "film" /\ Tick /\ calc.phase = "down"
  /\ film' = endDrag(film)
  /\ calc' = [calc EXCEPT !.phase = "idle"]
  /\ ev' = Ev("onMouseLeave", <<>>)
  /\ UNCHANGED <<page, music>>

GestureMusicDown ==
  /\ page = "music" /\ Tick /\ calc.phase = "idle"
  /\ \E p \in GestureMusicDowns :
       /\ music' = panYEffect(Music_onMouseDown(music, QI(p[1]), QI(p[2])))
       /\ calc' = [phase |-> "down", at |-> <<QI(p[1]), QI(p[2])>>,
                   moved |-> FALSE, start |-> music',
                   keys |-> {}]
       /\ ev' = Ev("onMouseDown", p)
  /\ UNCHANGED <<page, film>>

GestureMusicMove ==
  /\ page = "music" /\ Tick /\ calc.phase = "down"
  /\ \E p \in GestureMusicMoves, shift \in BOOLEAN :
       /\ music' = panYEffect(
                     Music_onMouseMove(music, QI(p[1]), QI(p[2]),
                                       QSub(QI(p[1]), calc.at[1]),
                                       QSub(QI(p[2]), calc.at[2]), shift))
       /\ calc' = [calc EXCEPT !.at = <<QI(p[1]), QI(p[2])>>, !.moved = TRUE,
                               !.keys = @ \cup {shift}]
       /\ ev' = Ev("onMouseMove", <<p, shift>>)
  /\ UNCHANGED <<page, film>>

GestureMusicUp ==
  /\ page = "music" /\ Tick /\ calc.phase = "down"
  /\ music' = Music_endDrag(music)
  /\ calc' = [calc EXCEPT !.phase = "up"]
  /\ ev' = Ev("onMouseUp", <<>>)
  /\ UNCHANGED <<page, film>>

GestureMusicClick ==
  /\ page = "music" /\ calc.phase = "up"
  /\ music' = panYEffect(Music_onClick(music, calc.at[1], calc.at[2]))
  /\ calc' = [calc EXCEPT !.phase = "idle"]
  /\ ev' = Ev("onClick", calc.at)
  /\ UNCHANGED <<page, film, budget>>

GestureMusicLeave ==
  /\ page = "music" /\ Tick /\ calc.phase = "down"
  /\ music' = Music_endDrag(music)
  /\ calc' = [calc EXCEPT !.phase = "idle"]
  /\ ev' = Ev("onMouseLeave", <<>>)
  /\ UNCHANGED <<page, film>>

InitGesture ==
  /\ page \in {"film", "music"}
  /\ \E snap \in BOOLEAN, moves \in BOOLEAN :
       /\ film \in IF page = "film"
                   THEN {setSnapEnabled(FilmG, snap), setSnapEnabled(FilmGMulti, snap)}
                   ELSE {FilmInit}
       /\ music \in IF page = "music"
                    THEN {[MusicG EXCEPT !.dragMovesTimestamp = moves],
                          [MusicGScrolled EXCEPT !.dragMovesTimestamp = moves]}
                    ELSE {MusicInit}
  /\ calc = GestureInit /\ ev = Ev("mount", <<>>)
  /\ budget = MaxGestureEvents

NextGesture ==
  \/ GestureFilmDown \/ GestureFilmMove \/ GestureFilmUp \/ GestureFilmClick
  \/ GestureFilmLeave
  \/ GestureMusicDown \/ GestureMusicMove \/ GestureMusicUp \/ GestureMusicClick
  \/ GestureMusicLeave

SpecGesture == InitGesture /\ [][NextGesture]_vars

(* --------------------------- notes and scenes -------------------------- *)
MaxNoteEvents == 4

(* the Reattach Note button, enabled while a note is selected *)
toggleReattachMode(f) == [f EXCEPT !.reattachMode = ~@]

DeleteSelectedNote ==
  /\ page = "film" /\ Tick /\ film.selectedNoteId # NoId
  /\ film' = deleteSelectedNote(film)
  /\ ev' = Ev("deleteSelectedNote", <<film.selectedNoteId>>)
  /\ FilmFrame

ToggleReattachMode ==
  /\ page = "film" /\ Tick /\ film.selectedNoteId # NoId
  /\ film' = toggleReattachMode(film)
  /\ ev' = Ev("setReattachMode", <<>>)
  /\ FilmFrame

ModelClick ==
  /\ page = "film" /\ Tick
  /\ \E p \in ModelPoints :
       /\ film' = onClick(film, QI(p[1]), QI(p[2]))
       /\ ev' = Ev("onClick", p)
  /\ FilmFrame

(* pointer-down and pointer-up on a note or a scene, which selects it *)
NotePoints == {<<100, 150>>, <<100, 60>>, <<400, 60>>}
PressAndRelease ==
  /\ page = "film" /\ Tick
  /\ \E p \in NotePoints :
       /\ film' = endDrag(onMouseDown(film, QI(p[1]), QI(p[2])))
       /\ ev' = Ev("onMouseDown", p)
  /\ FilmFrame

InitNotes ==
  /\ page = "film"
  /\ film \in {FilmInit, Film_loadProject(FilmInit, ProjectA)}
  /\ music = MusicInit /\ calc = CalcInit /\ ev = Ev("mount", <<>>)
  /\ budget = MaxNoteEvents

NextNotes ==
  \/ AddScene \/ AddNoteToSelectedScene \/ ToggleReattachMode \/ ModelClick
  \/ DeleteSelectedScene \/ DeleteSelectedNote \/ ImportScript \/ Undo
  \/ PressAndRelease

SpecNotes == InitNotes /\ [][NextNotes]_vars

(* ------------------ the lifetime of a multi-selection ------------------ *)
MaxSelEvents == 6

(* pointer-downs: the background above the scenes, the body of scene 1, the
   body of scene 2; pointer-moves: to the right and below, to x 150 *)
SelDowns == {<<250, 5>>, <<100, 60>>, <<400, 60>>}
SelMoves == {<<320, 40>>, <<150, 60>>}

(* calc follows the gestures: the phase, the pointer's position, whether the
   pointer has moved since the pointer-down, the editor as the pointer-down
   left it, and the number of scene drags that have ended since the last
   marquee was started *)
SelInit ==
  [phase |-> "idle", at |-> <<Zero, Zero>>, moved |-> FALSE, start |-> NoRec,
   ended |-> 0]

SelEnded(f, c) ==
  IF f.dragMode = "scene" /\ c.moved THEN c.ended + 1 ELSE c.ended

SelDown ==
  /\ page = "film" /\ Tick /\ calc.phase = "idle"
  /\ \E p \in SelDowns :
       /\ film' = onMouseDown(film, QI(p[1]), QI(p[2]))
       /\ calc' = [calc EXCEPT !.phase = "down",
                               !.at = <<QI(p[1]), QI(p[2])>>,
                               !.moved = FALSE, !.start = film',
                               !.ended = IF film'.dragMode = "marquee"
                                         THEN 0 ELSE @]
       /\ ev' = Ev("onMouseDown", p)
  /\ UNCHANGED <<page, music>>

SelMove ==
  /\ page = "film" /\ Tick /\ calc.phase = "down"
  /\ \E p \in SelMoves :
       /\ film' = onMouseMove(film, QI(p[1]), QI(p[2]),
                              QSub(QI(p[1]), calc.at[1]))
       /\ calc' = [calc EXCEPT !.at = <<QI(p[1]), QI(p[2])>>, !.moved = TRUE]
       /\ ev' = Ev("onMouseMove", p)
  /\ UNCHANGED <<page, music>>

SelUp ==
  /\ page = "film" /\ Tick /\ calc.phase = "down"
  /\ film' = endDrag(film)
  /\ calc' = [calc EXCEPT !.phase = "up", !.ended = SelEnded(film, calc)]
  /\ ev' = Ev("onMouseUp", <<>>)
  /\ UNCHANGED <<page, music>>

SelLeave ==
  /\ page = "film" /\ Tick /\ calc.phase = "down"
  /\ film' = endDrag(film)
  /\ calc' = [calc EXCEPT !.phase = "idle", !.ended = SelEnded(film, calc)]
  /\ ev' = Ev("onMouseLeave", <<>>)
  /\ UNCHANGED <<page, music>>

(* the click event that follows the pointer-up *)
SelClick ==
  /\ page = "film" /\ calc.phase = "up"
  /\ film' = onClick(film, calc.at[1], calc.at[2])
  /\ calc' = [calc EXCEPT !.phase = "idle"]
  /\ ev' = Ev("onClick", calc.at)
  /\ UNCHANGED <<page, music, budget>>

InitSel ==
  /\ page = "film" /\ film \in {FilmG, FilmGMulti} /\ music = MusicInit
  /\ calc = SelInit /\ ev = Ev("mount", <<>>)
  /\ budget = MaxSelEvents

NextSel == SelDown \/ SelMove \/ SelUp \/ SelLeave \/ SelClick

SpecSel == InitSel /\ [][NextSel]_vars

(* ------------------------ music: touch sequences ----------------------- *)
MaxTouchEvents == 6

(* Math.hypot of the offsets of two touches given in whole pixels *)
pinchDistance(a, b) ==
  LET dx == Abs(Num(QSub(a[1], b[1])))
      dy == Abs(Num(QSub(a[2], b[2])))
  IN IF dy = 0 THEN QI(dx)
     ELSE IF dx = 0 THEN QI(dy)
     ELSE QI(CHOOSE k \in 0..(dx + dy) : k * k = dx * dx + dy * dy)

pinchCenterCss(a, b) ==
  [x |-> QDiv(QAdd(a[1], b[1]), QI(2)), y |-> QDiv(QAdd(a[2], b[2]), QI(2))]

(* onTouchEnd with one touch remaining at (x, y), without the reset of the
   last-touch reference, and as the code has it *)
Music_onTouchEnd1_StaleLast(m, x, y) ==
  [m EXCEPT !.touchMode = "pan", !.pinchStart = NoRec,
            !.touchDrag = [mode |-> "none"]]
Music_onTouchEnd1(m, x, y) ==
  [m EXCEPT !.touchMode = "pan", !.touchLast = [x |-> x, y |-> y],
            !.pinchStart = NoRec, !.touchDrag = [mode |-> "none"]]

(* first touches: on the note of project N, on the background; the second
   touch lands beside the first at an offset; targets of one-finger moves;
   separations and shifts of two-finger moves *)
TouchPoints == {<<250, 190>>, <<600, 50>>}
TouchOffsets == {100, -150}
TouchMoves == {<<300, 220>>, <<500, 50>>, <<100, 60>>}
TouchSpreads == {50, 200}
TouchShifts == {0, -40}

QPoint(p) == <<QI(p[1]), QI(p[2])>>

(* calc follows the fingers: their positions in the order of e.touches,
   whether a finger has lifted from two and no move has followed yet, and
   the note whose one-finger drag a second touch interrupted, as it was
   then (NoRec when none) *)
TouchInit == [fingers |-> <<>>, lifted |-> FALSE, cancelled |-> NoRec]

TouchStartOne ==
  /\ page = "music" /\ Tick /\ Len(calc.fingers) = 0
  /\ \E p \in TouchPoints :
       /\ music' = panYEffect(Music_onTouchStart1(music, QI(p[1]), QI(p[2])))
       /\ calc' = [fingers |-> <<QPoint(p)>>, lifted |-> FALSE,
                   cancelled |-> NoRec]
       /\ ev' = Ev("onTouchStart", <<p>>)
  /\ UNCHANGED <<page, film>>

TouchStartTwo ==
  /\ page = "music" /\ Tick /\ Len(calc.fingers) = 1
  /\ \E d \in TouchOffsets :
       LET a == calc.fingers[1]
           b == <<QAdd(a[1], QI(d)), a[2]>>
       IN /\ music' = panYEffect(Music_onTouchStart2(music, pinchDistance(a, b),
                                                     pinchCenterCss(a, b).x))
          /\ calc' = [fingers |-> <<a, b>>, lifted |-> FALSE,
                      cancelled |-> IF music.touchDrag.mode = "note"
                                    THEN CHOOSE n \in Range(music.notes) :
                                           n.id = music.touchDrag.id
                                    ELSE calc.cancelled]
          /\ ev' = Ev("onTouchStart", <<a, b>>)
  /\ UNCHANGED <<page, film>>

TouchMoveOne ==
  /\ page = "music" /\ Tick /\ Len(calc.fingers) = 1
  /\ \E p \in TouchMoves :
       /\ music' = panYEffect(Music_onTouchMove1(music, QI(p[1]), QI(p[2])))
       /\ calc' = [calc EXCEPT !.fingers = <<QPoint(p)>>, !.lifted = FALSE]
       /\ ev' = Ev("onTouchMove", <<p>>)
  /\ UNCHANGED <<page, film>>

TouchMoveTwo ==
  /\ page = "music" /\ Tick /\ Len(calc.fingers) = 2
  /\ \E s \in TouchShifts, d \in TouchSpreads :
       LET a == <<QAdd(calc.fingers[1][1], QI(s)), calc.fingers[1][2]>>
           b == <<QAdd(a[1], QI(d)), a[2]>>
       IN /\ music' = panYEffect(Music_onTouchMove2(music, pinchDistance(a, b)))
          /\ calc' = [calc EXCEPT !.fingers = <<a, b>>]
          /\ ev' = Ev("onTouchMove", <<a, b>>)
  /\ UNCHANGED <<page, film>>

(* one of two fingers lifts *)
TouchEndOne ==
  /\ page = "music" /\ Tick /\ Len(calc.fingers) = 2
  /\ \E i \in 1..2 :
       LET r == calc.fingers[3 - i]
       IN /\ music' = Music_onTouchEnd1(music, r[1], r[2])
          /\ calc' = [calc EXCEPT !.fingers = <<r>>, !.lifted = TRUE]
          /\ ev' = Ev("onTouchEnd", <<r>>)
  /\ UNCHANGED <<page, film>>

(* the last finger lifts, or both lift at once *)
TouchEndAll ==
  /\ page = "music" /\ Tick /\ Len(calc.fingers) >= 1
  /\ music' = Music_onTouchEnd0(music)
  /\ calc' = [calc EXCEPT !.fingers = <<>>, !.lifted = FALSE]
  /\ ev' = Ev("onTouchEnd", <<>>)
  /\ UNCHANGED <<page, film>>

InitTouch ==
  /\ page = "music" /\ film = FilmInit
  /\ \E moves \in BOOLEAN, d \in {Zero, QI(20)} :
       music = [Music_loadProject(MusicInit, ProjectN) EXCEPT
                  !.dragMovesTimestamp = moves, !.duration = d]
  /\ calc = TouchInit /\ ev = Ev("mount", <<>>)
  /\ budget = MaxTouchEvents

NextTouch ==
  \/ TouchStartOne \/ TouchStartTwo \/ TouchMoveOne \/ TouchMoveTwo
  \/ TouchEndOne \/ TouchEndAll

SpecTouch == InitTouch /\ [][NextTouch]_vars

(* --------------------- pointer released: hover moves ------------------- *)
(* a pointer-move while no button is held, and the pointer leaving the
   canvas while no button is held *)
HoverFilmMove ==
  /\ page = "film" /\ Tick /\ calc.phase \in {"idle", "up"}
  /\ \E p \in GestureFilmMoves :
       /\ film' = onMouseMove(film, QI(p[1]), QI(p[2]),
                              QSub(QI(p[1]), calc.at[1]))
       /\ calc' = [calc EXCEPT !.phase = "idle",
                               !.at = <<QI(p[1]), QI(p[2])>>]
       /\ ev' = Ev("onMouseMove", p)
  /\ UNCHANGED <<page, music>>

HoverFilmLeave ==
  /\ page = "film" /\ Tick /\ calc.phase \in {"idle", "up"}
  /\ film' = endDrag(film)
  /\ calc' = [calc EXCEPT !.phase = "idle"]
  /\ ev' = Ev("onMouseLeave", <<>>)
  /\ UNCHANGED <<page, music>>

HoverMusicMove ==
  /\ page = "music" /\ Tick /\ calc.phase \in {"idle", "up"}
  /\ \E p \in GestureMusicMoves, shift \in BOOLEAN :
       /\ music' = panYEffect(
                     Music_onMouseMove(music, QI(p[1]), QI(p[2]),
                                       QSub(QI(p[1]), calc.at[1]),
                                       QSub(QI(p[2]), calc.at[2]), shift))
       /\ calc' = [calc EXCEPT !.phase = "idle",
                               !.at = <<QI(p[1]), QI(p[2])>>]
       /\ ev' = Ev("onMouseMove", <<p, shift>>)
  /\ UNCHANGED <<page, film>>

HoverMusicLeave ==
  /\ page = "music" /\ Tick /\ calc.phase \in {"idle", "up"}
  /\ music' = Music_endDrag(music)
  /\ calc' = [calc EXCEPT !.phase = "idle"]
  /\ ev' = Ev("onMouseLeave", <<>>)
  /\ UNCHANGED <<page, film>>

NextRelease ==
  \/ GestureFilmDown \/ GestureFilmMove \/ GestureFilmUp \/ GestureFilmClick
  \/ GestureFilmLeave \/ HoverFilmMove \/ HoverFilmLeave
  \/ GestureMusicDown \/ GestureMusicMove \/ GestureMusicUp \/ GestureMusicClick
  \/ GestureMusicLeave \/ HoverMusicMove \/ HoverMusicLeave

SpecRelease == InitGesture /\ [][NextRelease]_vars

(* -------------------- pointer-downs on a scene's regions --------------- *)
MaxRegionEvents == 3

(* pointer-downs over scene 1 (0..300 px wide, top 12): across its left
   band, the chevron box (x 4..16, y 18..30), the body and the right band *)
RegionXs == {0, 4, 6, 8, 9, 12, 16, 17, 100, 291, 292, 296, 300}
RegionYs == {12, 17, 18, 24, 30, 31, 60}

RegionDown ==
  /\ page = "film" /\ Tick /\ calc.phase = "idle"
  /\ \E x \in RegionXs, y \in RegionYs :
       /\ film' = onMouseDown(film, QI(x), QI(y))
       /\ calc' = [phase |-> "down", at |-> <<QI(x), QI(y)>>,
                   moved |-> FALSE, start |-> film', keys |-> {}]
       /\ ev' = Ev("onMouseDown", <<x, y>>)
  /\ UNCHANGED <<page, music>>

InitRegion ==
  /\ page = "film" /\ film = FilmG /\ music = MusicInit
  /\ calc = GestureInit /\ ev = Ev("mount", <<>>)
  /\ budget = MaxRegionEvents

NextRegion == RegionDown \/ GestureFilmUp \/ GestureFilmClick \/ GestureFilmLeave

SpecRegion == InitRegion /\ [][NextRegion]_vars

(* ------------------- the stacking order of a scene's notes ------------- *)
MaxOrderEvents == 6

moveNoteUp(f) ==
  IF f.selectedNoteId = NoId THEN f
  ELSE LET h == pushHistory(f)
           IsSel(n) == n.id = f.selectedNoteId
           note == Find(IsSel, f.notes)
       IN IF note = NoRec THEN h
          ELSE LET Sibling(n) == n.sceneId = note.sceneId
                   siblings == StableSort(SelectSeq(f.notes, Sibling), ByOrder)
                   idx == findIndex(siblings, IsSel)
               IN IF idx <= 0 THEN h
                  ELSE LET above == siblings[idx]
                           Swap(n) == IF n.id = note.id
                                        THEN [n EXCEPT !.order = above.order]
                                      ELSE IF n.id = above.id
                                        THEN [n EXCEPT !.order = note.order]
                                      ELSE n
                       IN [h EXCEPT !.notes = SeqMap(Swap, @)]

moveNoteDown(f) ==
  IF f.selectedNoteId = NoId THEN f
  ELSE LET h == pushHistory(f)
           IsSel(n) == n.id = f.selectedNoteId
           note == Find(IsSel, f.notes)
       IN IF note = NoRec THEN h
          ELSE LET Sibling(n) == n.sceneId = note.sceneId
                   siblings == StableSort(SelectSeq(f.notes, Sibling), ByOrder)
                   idx == findIndex(siblings, IsSel)
               IN IF idx = -1 \/ idx >= Len(siblings) - 1 THEN h
                  ELSE LET below == siblings[idx + 2]
                           Swap(n) == IF n.id = note.id
                                        THEN [n EXCEPT !.order = below.order]
                                      ELSE IF n.id = below.id
                                        THEN [n EXCEPT !.order = note.order]
                                      ELSE n
                       IN [h EXCEPT !.notes = SeqMap(Swap, @)]

MoveNoteUp ==
  /\ page = "film" /\ Tick /\ film.selectedNoteId # NoId
  /\ film' = moveNoteUp(film)
  /\ ev' = Ev("moveNoteUp", <<film.selectedNoteId>>)
  /\ FilmFrame

MoveNoteDown ==
  /\ page = "film" /\ Tick /\ film.selectedNoteId # NoId
  /\ film' = moveNoteDown(film)
  /\ ev' = Ev("moveNoteDown", <<film.selectedNoteId>>)
  /\ FilmFrame

(* pointer-down and pointer-up on the first and the second note under scene
   1, and on the bodies of scene 1 and scene 2 *)
OrderPoints == {<<100, 150>>, <<100, 260>>, <<100, 60>>, <<400, 60>>}
OrderPress ==
  /\ page = "film" /\ Tick
  /\ \E p \in OrderPoints :
       /\ film' = endDrag(onMouseDown(film, QI(p[1]), QI(p[2])))
       /\ ev' = Ev("onMouseDown", p)
  /\ FilmFrame

(* the click that follows a press on the body of scene 1 or scene 2; in
   reattach mode it moves the selected note to that scene *)
OrderClick ==
  /\ page = "film" /\ Tick
  /\ \E p \in ModelPoints :
       /\ film' = onClick(film, QI(p[1]), QI(p[2]))
       /\ ev' = Ev("onClick", p)
  /\ FilmFrame

InitOrder ==
  /\ page = "film"
  /\ film = Film_loadProject(FilmInit, ProjectA)
  /\ music = MusicInit /\ calc = CalcInit /\ ev = Ev("mount", <<>>)
  /\ budget = MaxOrderEvents

NextOrder ==
  \/ AddNoteToSelectedScene \/ DeleteSelectedNote \/ MoveNoteUp \/ MoveNoteDown
  \/ ToggleReattachMode \/ OrderPress \/ OrderClick

SpecOrder == InitOrder /\ [][NextOrder]_vars

(* --------------------------------- undo -------------------------------- *)
MaxUndoEvents == 5

(* calc: the scene list, the note list and the history depth the last call
   of undo found *)
NoUndo == [called |-> FALSE, scenes |-> <<>>, notes |-> <<>>, depth |-> 0]

UndoFrame == UNCHANGED <<page, music>> /\ calc' = [calc EXCEPT !.called = FALSE]

UndoAddScene ==
  /\ page = "film" /\ Tick
  /\ film' = addScene(film)
  /\ ev' = Ev("addScene", <<>>)
  /\ UndoFrame

UndoDeleteSelectedScene ==
  /\ page = "film" /\ Tick /\ film.selectedSceneId # NoId
  /\ film' = deleteSelectedScene(film)
  /\ ev' = Ev("deleteSelectedScene", <<film.selectedSceneId>>)
  /\ UndoFrame

UndoUpdateOriginalNumber ==
  /\ page = "film" /\ Tick /\ film.selectedSceneId # NoId
  /\ \E v \in FilmNumbers :
       /\ film' = updateOriginalNumber(film, v)
       /\ ev' = Ev("updateOriginalNumber", <<film.selectedSceneId, numberInput(v)>>)
  /\ UndoFrame

UndoAddNote ==
  /\ page = "film" /\ Tick /\ film.selectedSceneId # NoId
  /\ film' = addNoteToSelectedScene(film)
  /\ ev' = Ev("addNoteToSelectedScene", <<>>)
  /\ UndoFrame

UndoMoveNoteUp ==
  /\ page = "film" /\ Tick /\ film.selectedNoteId # NoId
  /\ film' = moveNoteUp(film)
  /\ ev' = Ev("moveNoteUp", <<film.selectedNoteId>>)
  /\ UndoFrame

(* pointer-down and pointer-up on the note under scene 1 or on the body of
   scene 1; the pointer-down on a note pushes a history entry *)
UndoPoints == {<<100, 150>>, <<100, 60>>}
UndoPress ==
  /\ page = "film" /\ Tick
  /\ \E p \in UndoPoints :
       /\ film' = endDrag(onMouseDown(film, QI(p[1]), QI(p[2])))
       /\ ev' = Ev("onMouseDown", p)
  /\ UndoFrame

(* the handler undo; the toolbar button is disabled while the history is
   empty, the handler itself then returns the state it was given *)
UndoCall ==
  /\ page = "film" /\ Tick
  /\ film' = undo(film)
  /\ ev' = Ev("undo", <<>>)
  /\ calc' = [called |-> TRUE, scenes |-> film.scenes, notes |-> film.notes,
              depth |-> Len(film.history)]
  /\ UNCHANGED <<page, music>>

InitUndo ==
  /\ page = "film"
  /\ film \in {FilmInit, Film_loadProject(FilmInit, ProjectA)}
  /\ music = MusicInit /\ calc = NoUndo /\ ev = Ev("mount", <<>>)
  /\ budget = MaxUndoEvents

NextUndo ==
  \/ UndoAddScene \/ UndoDeleteSelectedScene \/ UndoUpdateOriginalNumber
  \/ UndoAddNote \/ UndoMoveNoteUp \/ UndoPress \/ UndoCall

SpecUndo == InitUndo /\ [][NextUndo]_vars

(* ------------------------------- playback ------------------------------ *)
MaxPlayEvents == 3

(* calc: what the playback refs and the browser hold.  elapsed is
   ctx.currentTime - startedAtRef.current, read up to the end of the track
   (tick uses it through Math.min(t, endCap) only); baseTime is baseTimeRef;
   source: sourceRef holds a source that is sounding; raf: a frame callback
   is requested; loop: loopEnabled, loopA, loopB as the closure of the tick
   effect holds them; ended: 'ended' events of stopped or finished sources
   not yet delivered; sought: the last frame called seekTo *)
PlayInit ==
  [elapsed |-> Zero, baseTime |-> Zero, source |-> FALSE, raf |-> FALSE,
   loop |-> [enabled |-> FALSE, a |-> NoNum, b |-> NoNum],
   ended |-> 0, sought |-> FALSE]

(* seconds of audio clock between two frames *)
FrameSteps == {Q(1, 2), QI(1)}

LoopOf(m) == [enabled |-> m.loopEnabled, a |-> m.loopA, b |-> m.loopB]

(* play(), then the tick effect of the render with isPlaying true *)
play(m, c) ==
  IF m.duration = Zero \/ m.isPlaying THEN <<m, c>>
  ELSE <<[m EXCEPT !.isPlaying = TRUE],
         [c EXCEPT !.source = TRUE, !.elapsed = Zero, !.baseTime = m.playheadSec,
                   !.raf = TRUE, !.loop = LoopOf(m), !.sought = FALSE]>>

(* pause(), then the cleanup of the tick effect *)
pause(m, c) ==
  <<[m EXCEPT !.isPlaying = FALSE],
    [c EXCEPT !.source = FALSE, !.raf = FALSE,
              !.ended = IF c.source THEN @ + 1 ELSE @]>>

(* seekTo(sec) as the tick effect's closure calls it (isPlaying true in
   that closure): the sounding source is stopped, a new one started *)
seekTo(m, c, sec) ==
  <<[m EXCEPT !.playheadSec = sec],
    IF m.duration = Zero THEN c
    ELSE [c EXCEPT !.ended = IF c.source THEN @ + 1 ELSE @,
                   !.source = TRUE, !.elapsed = Zero, !.baseTime = sec]>>

(* one run of tick, dt of audio clock after the previous one *)
tick(m, c, dt) ==
  LET endCap == m.duration
      cap == QMax(Zero, QSub(endCap, c.baseTime))
      el == QMin(QAdd(c.elapsed, dt), cap)
      t == QAdd(c.baseTime, el)
      next == QMin(t, endCap)
      d == [c EXCEPT !.elapsed = el]
  IN IF c.loop.enabled /\ c.loop.a # NoNum /\ c.loop.b # NoNum
          /\ QGt(c.loop.b, c.loop.a) /\ QGe(next, c.loop.b)
       THEN LET s == seekTo(m, d, c.loop.a)
            IN <<s[1], [s[2] EXCEPT !.raf = FALSE, !.sought = TRUE]>>
     ELSE <<[m EXCEPT !.playheadSec = next], [d EXCEPT !.raf = TRUE, !.sought = FALSE]>>

(* src.onended: setIsPlaying(false), then the cleanup of the tick effect *)
onended(m, c) ==
  <<[m EXCEPT !.isPlaying = FALSE],
    [c EXCEPT !.ended = @ - 1, !.raf = IF m.isPlaying THEN FALSE ELSE @]>>

PlayFrame == UNCHANGED <<page, film>>

Play ==
  /\ page = "music" /\ Tick
  /\ music' = play(music, calc)[1] /\ calc' = play(music, calc)[2]
  /\ ev' = Ev("play", <<>>)
  /\ PlayFrame

Pause ==
  /\ page = "music" /\ Tick
  /\ music' = pause(music, calc)[1] /\ calc' = pause(music, calc)[2]
  /\ ev' = Ev("pause", <<>>)
  /\ PlayFrame

PlaySetLoopEnabled ==
  /\ page = "music" /\ Tick
  /\ music' = setLoopEnabled(music, ~music.loopEnabled)
  /\ calc' = [calc EXCEPT !.sought = FALSE]
  /\ ev' = Ev("setLoopEnabled", <<>>)
  /\ PlayFrame

(* the browser runs the requested frame callback *)
FrameTick ==
  /\ page = "music" /\ calc.raf
  /\ \E dt \in FrameSteps :
       /\ music' = tick(music, calc, dt)[1] /\ calc' = tick(music, calc, dt)[2]
       /\ ev' = Ev("tick", <<dt>>)
  /\ UNCHANGED <<page, film, budget>>

(* the sounding source reaches the end of the buffer *)
SourceFinishes ==
  /\ page = "music" /\ calc.source
  /\ QGe(QAdd(calc.baseTime, calc.elapsed), music.duration)
  /\ calc' = [calc EXCEPT !.source = FALSE, !.ended = @ + 1, !.sought = FALSE]
  /\ ev' = Ev("finished", <<>>)
  /\ UNCHANGED <<page, film, music, budget>>

(* the browser delivers an 'ended' event *)
SourceEnded ==
  /\ page = "music" /\ calc.ended > 0
  /\ music' = onended(music, calc)[1]
  /\ calc' = [onended(music, calc)[2] EXCEPT !.sought = FALSE]
  /\ ev' = Ev("onended", <<>>)
  /\ UNCHANGED <<page, film, budget>>

(* a track of 4 s, loop A set at 1 s and loop B at 2 s, the playhead
   scrubbed to 0 s or to 3 s, looping on or off *)
InitPlay ==
  /\ page = "music" /\ film = FilmInit
  /\ \E on \in BOOLEAN, at \in {Zero, QI(3)} :
       music = [MusicInit EXCEPT !.duration = QI(4), !.loopA = QI(1),
                                 !.loopB = QI(2), !.loopEnabled = on,
                                 !.playheadSec = at]
  /\ calc = PlayInit /\ ev = Ev("mount", <<>>)
  /\ budget = MaxPlayEvents

NextPlay ==
  \/ Play \/ Pause \/ PlaySetLoopEnabled
  \/ FrameTick \/ SourceFinishes \/ SourceEnded

SpecPlay == InitPlay /\ [][NextPlay]_vars

(* a requested frame callback is run, a finished source ends, and a queued
   'ended' event is delivered *)
SpecPlayFair ==
  /\ SpecPlay
  /\ WF_vars(FrameTick) /\ WF_vars(SourceFinishes) /\ WF_vars(SourceEnded)

(* ======================= properties: scene numbers ===================== *)
UniqueNumbers(scenes) ==
  \A i, j \in DOMAIN scenes :
    i # j => scenes[i].originalSceneNumber # scenes[j].originalSceneNumber

HasScene(f, sid) == \E i \in DOMAIN f.scenes : f.scenes[i].id = sid

(* a number edit (toolbar or modal) of an existing scene to a number that
   another scene carries *)
DuplicateEdit ==
  /\ ev'.op = "updateOriginalNumber"
  /\ HasScene(film, ev'.arg[1])
  /\ NumberTaken(film, ev'.arg[1], ev'.arg[2])

(* C1: no two scenes of the list share an originalSceneNumber, after
   addScene, a number edit from the toolbar or the modal, deleteSelectedScene
   and undo; and a number edit to a number another scene already carries
   leaves the scenes list as it was (numbers, positions and lengths). *)
C1_UniqueOriginalNumbers ==
  /\ [](page = "film" => UniqueNumbers(film.scenes))
  /\ [][DuplicateEdit => film'.scenes = film.scenes]_vars

(* a rejected duplicate edit has happened: the edited scene is in a list of
   two or more scenes and another scene carries the number typed *)
C1_Witness ==
  /\ ev.op = "updateOriginalNumber"
  /\ HasScene(film, ev.arg[1])
  /\ NumberTaken(film, ev.arg[1], ev.arg[2])
  /\ Len(film.history) > 0 /\ Last(film.history).scenes = film.scenes

(* ======================= properties: scene delete ====================== *)
(* C2: deleteSelectedScene with scene S selected removes S from the scenes
   list and exactly the notes whose sceneId is S from the notes list; every
   other scene and note stays, unchanged and in order. *)
C2_DeleteCascades ==
  [][(ev'.op = "deleteSelectedScene" /\ film.selectedSceneId # NoId) =>
       LET S == film.selectedSceneId
           OtherScene(s) == s.id # S
           OtherNote(n) == n.sceneId # S
       IN /\ ~HasScene(film', S)
          /\ film'.scenes = SelectSeq(film.scenes, OtherScene)
          /\ film'.notes = SelectSeq(film.notes, OtherNote)]_vars

(* a scene carrying two notes has been deleted while a note of another scene
   stays *)
C2_Witness ==
  /\ ev.op = "deleteSelectedScene" /\ ev.arg[1] # NoId
  /\ Len(film.history) > 0
  /\ LET pre == Last(film.history)
          S == ev.arg[1]
     IN /\ \E i \in DOMAIN pre.scenes : pre.scenes[i].id = S
        /\ Cardinality({i \in DOMAIN pre.notes : pre.notes[i].sceneId = S}) = 2
        /\ Len(film.notes) = Len(pre.notes) - 2
  /\ Len(film.notes) > 0

(* ====================== properties: display order ====================== *)
(* C3: the newSceneNumbers of the list are exactly 1..N, and a scene with a
   smaller positionSec has the smaller newSceneNumber, after drag, resize,
   add, delete, undo and import. *)
C3_NewNumbersFollowPosition ==
  page = "film" =>
    LET w == scenesWithOrder(film.scenes)
    IN /\ Len(w) = Len(film.scenes)
       /\ {w[i].newSceneNumber : i \in DOMAIN w} = 1..Len(film.scenes)
       /\ \A i, j \in DOMAIN w :
            QLt(w[i].positionSec, w[j].positionSec)
              => w[i].newSceneNumber < w[j].newSceneNumber

(* a drag has carried the first scene of the list past the second one, or
   onto its position *)
C3_Witness ==
  /\ ev.op = "onMouseMove" /\ film.dragMode = "scene"
  /\ Len(film.scenes) = 2
  /\ QGe(film.scenes[1].positionSec, film.scenes[2].positionSec)

(* ======================= properties: scene length ====================== *)
(* C8: every scene's lengthSec is at least SCENE_MIN_SEC after addScene,
   import, a resize from either handle and a length edit, at any snap step
   of 0.01 or more and with snapping off. *)
C8_MinimumLength ==
  page = "film" =>
    \A i \in DOMAIN film.scenes :
      QGe(film.scenes[i].lengthSec, QI(SCENE_MIN_SEC))

(* ======================== properties: scene drag ======================= *)
IsNearestMultiple(p, v, step) ==
  /\ Den(QDiv(p, step)) = 1
  /\ QLe(QMul(QI(2), QAbs(QSub(p, v))), step)

SingleSceneDrag ==
  /\ ev'.op = "onMouseMove"
  /\ film.isMouseDown /\ film.dragMode = "scene"
  /\ film.activeSceneId # NoId /\ film.sceneStartSnapshot # NoRec
  /\ film.activeSceneId \notin film.multiSelIds

(* C9: a move of a single-scene drag stores, for the dragged scene, the
   multiple of the snap step nearest to max(0, pre-drag position + dx/zoom),
   which is never negative; with snapping off it stores that value itself. *)
C9_DragSnapsAndClamps ==
  [][SingleSceneDrag =>
       LET raw == QMax(Zero, QAdd(film.sceneStartSnapshot.positionSec,
                     QDiv(QSub(ev'.arg[1], film.dragStart.cx), film.zoom)))
       IN \A i \in DOMAIN film'.scenes :
            film'.scenes[i].id = film.activeSceneId =>
              LET p == film'.scenes[i].positionSec
              IN /\ QGe(p, Zero)
                 /\ film.snapEnabled => IsNearestMultiple(p, raw, film.snapStep)
                 /\ ~film.snapEnabled => p = raw]_vars

(* scene 1 of project A, dragged 123.7 px at zoom 10 with the default step
   of 1 s, sits at 12 *)
C9_Witness ==
  /\ ev.op = "onMouseMove" /\ ev.arg[1] = Q(2237, 10)
  /\ film.dragMode = "scene" /\ film.activeSceneId = 1
  /\ film.snapEnabled /\ film.snapStep = QI(1)
  /\ film.sceneStartSnapshot # NoRec
  /\ film.sceneStartSnapshot.positionSec = Zero
  /\ film.dragStart.cx = QI(100)
  /\ \E i \in DOMAIN film.scenes :
       film.scenes[i].id = 1 /\ film.scenes[i].positionSec = QI(12)

(* ===================== properties: time <-> x mapping ================== *)
(* C4: for t >= 0, zoom > 0 and any pan, negative included,
   xToTime(timeToX(t, zoom, pan), zoom, pan) = t. *)
C4_TimeRoundTrip ==
  (page = "time" /\ calc.fn = "xToTime") => calc.back = calc.t

(* the round trip of t = 12.34 at zoom 100 under pan -250 is done *)
C4_Witness ==
  /\ page = "time" /\ calc.fn = "xToTime"
  /\ calc.t = Q(617, 50) /\ calc.zoom = QI(100) /\ calc.pan = QI(-250)
  /\ calc.x = QI(984) /\ calc.back = Q(617, 50)

(* ========================= properties: zooming ========================= *)
(* the screen x a zoom step is anchored at: the cursor of a ctrl-wheel, the
   initial centre of a pinch *)
FilmAnchors ==
  IF page # "film" THEN {}
  ELSE IF ev'.op = "onWheel" /\ ev'.arg[1] THEN {ev'.arg[2]}
  ELSE IF ev'.op = "onTouchMove" /\ film.touchMode = "pinch" /\ film.pinchStart # NoRec
    THEN {film.pinchStart.centerXCss}
  ELSE {}
MusicAnchors ==
  IF page # "music" THEN {}
  ELSE IF ev'.op = "onWheel" /\ ev'.arg[1] THEN {ev'.arg[2]}
  ELSE IF ev'.op = "onTouchMove" /\ music.touchMode = "pinch" /\ music.pinchStart # NoRec
    THEN {music.pinchStart.centerXCss}
  ELSE {}

WorldUnder(v, X) == QDiv(QSub(X, v.panX), v.zoom)

(* the pan range of the music editor at zoom z with a track loaded *)
MusicMinPan(m, z) ==
  QNeg(QMul(QMax(Zero, QSub(m.duration, QDiv(m.canvasW, QMax(QI(1), z)))), z))
MusicPanFree(m, pan, z) ==
  m.duration = Zero \/ (QLe(MusicMinPan(m, z), pan) /\ QLe(pan, Zero))

(* C5 as stated: in both editors a zoom step anchored at X leaves the world
   time under X unchanged. *)
C5_AnchorAlwaysKept ==
  [][/\ \A X \in FilmAnchors : WorldUnder(film', X) = WorldUnder(film, X)
     /\ \A X \in MusicAnchors : WorldUnder(music', X) = WorldUnder(music, X)]_vars

(* C5, amended: the film editor keeps the world time under X in every zoom
   step; the music editor keeps it when the pan that does so lies within the
   pan range of the new zoom (always, when no track is loaded), and
   otherwise stores the end of the range nearest to that pan. *)
C5_AnchorKeptUnlessClamped ==
  [][/\ \A X \in FilmAnchors : WorldUnder(film', X) = WorldUnder(film, X)
     /\ \A X \in MusicAnchors :
          LET want == QSub(X, QMul(WorldUnder(music, X), music'.zoom))
          IN IF MusicPanFree(music, want, music'.zoom)
               THEN WorldUnder(music', X) = WorldUnder(music, X)
             ELSE music'.panX = IF QGt(want, Zero) THEN Zero
                                ELSE MusicMinPan(music, music'.zoom)]_vars

(* a ctrl-wheel zoom in the music editor with a track loaded, taken from a
   panned view, that kept the anchor: pan -300 at zoom 100, cursor at 100 *)
C5_Witness ==
  /\ page = "music" /\ music.duration # Zero
  /\ ev.op = "onWheel" /\ ev.arg[1] /\ ev.arg[2] = QI(100)
  /\ music.zoom = QI(110) /\ music.panX = QI(-340)

(* C7: the zoom of each editor stays within its bounds, 1..500 in the film
   editor and 1..300 in the music editor, after ctrl-wheel, pinch, the zoom
   controls, the minimap window resize, fitAll / fitSelected, newCanvas and
   loadProject. *)
C7_ZoomWithinBounds ==
  /\ page = "film" =>
       QGe(film.zoom, QI(Film_MIN_ZOOM)) /\ QLe(film.zoom, QI(Film_MAX_ZOOM))
  /\ page = "music" =>
       QGe(music.zoom, QI(Music_MIN_ZOOM)) /\ QLe(music.zoom, QI(Music_MAX_ZOOM))

(* ======================= properties: pointer down ====================== *)
(* what lies under a point of the film canvas *)
FilmInNote(f, x, y) ==
  \E i \in DOMAIN f.scenes :
    \E k \in DOMAIN getSceneNotesStack(f, f.scenes[i].id) :
      LET it == getSceneNotesStack(f, f.scenes[i].id)[k]
      IN InRect(x, y, it.x, it.y, it.w, it.h)
FilmInImage(f, x, y) ==
  \E i \in DOMAIN f.scenes :
    /\ hasImageCard(f.scenes[i])
    /\ LET r == getImageRectCss(f, f.scenes[i]) IN InRect(x, y, r.x, r.y, r.w, r.h)
FilmInScene(f, x, y) ==
  \E i \in DOMAIN f.scenes : sceneContains(f, f.scenes[i], x, y)

(* what lies under a point of the music canvas *)
Near(m, x, t) == QLe(QAbs(QSub(x, QAdd(QMul(t, m.zoom), m.panX))), QI(6))
MusicOnHandle(m, x) ==
  /\ m.loopEnabled /\ m.loopA # NoNum /\ m.loopB # NoNum /\ QGt(m.loopB, m.loopA)
  /\ (Near(m, x, m.loopA) \/ Near(m, x, m.loopB))
MusicOnMarker(m, x) == \E i \in DOMAIN m.markers : Near(m, x, m.markers[i].sec)
MusicInLyric(m, x, y) ==
  \E i \in DOMAIN m.lyricsClips :
    LET r == lyricRect(m, m.lyricsClips[i]) IN InRect(x, y, r.left, r.top, r.w, r.h)
MusicInNote(m, x, y) ==
  \E i \in DOMAIN m.notes :
    LET n == m.notes[i]
    IN InRect(x, y, QAdd(QAdd(QMul(n.timestampSec, m.zoom), m.panX), n.xOffsetPx),
              QAdd(n.yPx, m.panY), n.w, IF n.collapsed THEN QI(Music_COLLAPSED_H) ELSE n.h)

FilmDownPriority ==
  LET x == ev'.arg[1]
      y == ev'.arg[2]
  IN IF FilmInNote(film, x, y)
       THEN /\ film'.dragMode = "note" /\ film'.activeNoteId # NoId
            /\ film'.activeSceneId = film.activeSceneId
            /\ film'.activeImageSceneId = film.activeImageSceneId
     ELSE IF FilmInImage(film, x, y)
       THEN /\ film'.dragMode = "image" /\ film'.activeImageSceneId # NoId
            /\ film'.activeSceneId = film.activeSceneId
     ELSE IF FilmInScene(film, x, y)
       THEN /\ film'.dragMode \in {"scene", "resizeL", "resizeR", "none"}
            /\ film'.selectedSceneId # NoId
            /\ film'.marquee = film.marquee
     ELSE film'.dragMode = "marquee" /\ film'.marquee # NoRec

MusicDownPriority ==
  LET x == ev'.arg[1]
      y == ev'.arg[2]
  IN IF MusicOnHandle(music, x)
       THEN /\ music'.loopDrag \in {"A", "B"}
            /\ music'.draggingMarkerId = music.draggingMarkerId
            /\ music'.dragMode = music.dragMode
            /\ music'.activeNoteId = music.activeNoteId
     ELSE IF MusicOnMarker(music, x)
       THEN /\ music'.draggingMarkerId # NoId
            /\ music'.selectedMarkerId = music'.draggingMarkerId
            /\ music'.dragMode \notin {"lyric", "note"}
            /\ music'.loopDrag = music.loopDrag
            /\ music'.activeNoteId = music.activeNoteId
     ELSE IF MusicInLyric(music, x, y)
       THEN /\ music'.dragMode = "lyric" /\ music'.selectedLyricId # NoId
            /\ music'.selectedNoteId = NoId
            /\ music'.activeNoteId = music.activeNoteId
     ELSE IF MusicInNote(music, x, y)
       THEN /\ music'.dragMode \in {"note", "none"}
            /\ music'.selectedNoteId # NoId /\ music'.selectedLyricId = NoId
     ELSE /\ music'.dragMode = "pan"
          /\ music'.draggingMarkerId = music.draggingMarkerId
          /\ music'.selectedNoteId = NoId /\ music'.selectedLyricId = NoId

(* C6: a pointer down starts the drag of the topmost kind under the point:
   in the film editor note, then image card, then scene, then the marquee
   on the background; in the music editor loop handle, then marker, then
   lyric clip, then note, then the background pan. *)
C6_PointerDownPriority ==
  [][ev'.op = "onMouseDown" =>
       /\ page = "film" => FilmDownPriority
       /\ page = "music" => MusicDownPriority]_vars

(* a pointer down at a point inside a note, an image card and a scene of the
   film editor has started a note drag *)
C6_Witness ==
  /\ page = "film" /\ ev.op = "onMouseDown"
  /\ FilmInNote(film, ev.arg[1], ev.arg[2])
  /\ FilmInImage(film, ev.arg[1], ev.arg[2])
  /\ FilmInScene(film, ev.arg[1], ev.arg[2])
  /\ film.dragMode = "note" /\ film.activeNoteId = 2

(* a pointer down at a point on loop handle B, on a marker, inside a lyric
   clip and inside a note of the music editor has started a handle drag *)
MusicAllOverlap ==
  /\ page = "music" /\ ev.op = "onMouseDown"
  /\ MusicOnHandle(music, ev.arg[1]) /\ MusicOnMarker(music, ev.arg[1])
  /\ MusicInLyric(music, ev.arg[1], ev.arg[2])
  /\ MusicInNote(music, ev.arg[1], ev.arg[2])
  /\ music.loopDrag = "B" /\ music.draggingMarkerId = NoId
  /\ music.dragMode = "none"

(* ========================== properties: loop =========================== *)
(* C10: in the music editor loopB > loopA whenever both are set, after Set
   A, Set B, Clear and handle drags. *)
C10_LoopOrdered ==
  (page = "music" /\ music.loopA # NoNum /\ music.loopB # NoNum)
    => QGt(music.loopB, music.loopA)

(* the handle drags alone keep the order and clamp at 0.01 s from the other
   end *)
LoopDragClamps ==
  [][(page = "music" /\ ev'.op = "onMouseMove" /\ music.isMouseDown
      /\ music.loopDrag # "none" /\ music.loopA # NoNum /\ music.loopB # NoNum
      /\ QGt(music.loopB, music.loopA)) =>
       LET t == QMax(Zero, QDiv(QSub(ev'.arg[1], music.panX), music.zoom))
       IN /\ QGt(music'.loopB, music'.loopA)
          /\ (music.loopDrag = "B" /\ QLe(t, music.loopA))
               => music'.loopB = QAdd(music.loopA, Q(1, 100))
          /\ (music.loopDrag = "A" /\ QGe(t, music.loopB))
               => music'.loopA = QMax(Zero, QSub(music.loopB, Q(1, 100)))]_vars

(* ===================== properties: auto-placement ====================== *)
SceneOf(f, sid) == CHOOSE s \in Range(f.scenes) : s.id = sid
SceneEnd(s) == QAdd(s.positionSec, s.lengthSec)
(* the neighbours by original number of scene c among the scenes of f *)
IsPredecessor(f, p, c) ==
  /\ p.id # c.id /\ p.originalSceneNumber < c.originalSceneNumber
  /\ \A o \in Range(f.scenes) :
       (o.id # c.id /\ o.originalSceneNumber < c.originalSceneNumber)
         => o.originalSceneNumber <= p.originalSceneNumber
IsSuccessor(f, n, c) ==
  /\ n.id # c.id /\ n.originalSceneNumber > c.originalSceneNumber
  /\ \A o \in Range(f.scenes) :
       (o.id # c.id /\ o.originalSceneNumber > c.originalSceneNumber)
         => o.originalSceneNumber >= n.originalSceneNumber
(* a number edit that was accepted, so that the scene was auto-placed *)
PlacedEdit ==
  /\ ev'.op = "updateOriginalNumber"
  /\ HasScene(film, ev'.arg[1])
  /\ ~NumberTaken(film, ev'.arg[1], ev'.arg[2])

(* C11: a scene auto-placed between its predecessor and its successor by
   original number overlaps neither (start >= predecessor end and start +
   lengthSec <= successor start) whenever the span from the predecessor's
   end to the successor's start is at least lengthSec + 2, at every snap
   setting and step. *)
C11_AutoPlaceNoOverlap ==
  [][PlacedEdit =>
       LET c == SceneOf(film', ev'.arg[1])
       IN \A p, n \in Range(film'.scenes) :
            (/\ IsPredecessor(film', p, c) /\ IsSuccessor(film', n, c)
             /\ QGe(QSub(n.positionSec, SceneEnd(p)),
                    QAdd(c.lengthSec, QI(2))))
              => /\ QGe(c.positionSec, SceneEnd(p))
                 /\ QLe(SceneEnd(c), n.positionSec)]_vars

(* the same with snapping off or a snap step of at most 1 s *)
AutoPlaceNoOverlapSmallStep ==
  [][(PlacedEdit /\ (~film.snapEnabled \/ QLe(film.snapStep, QI(1)))) =>
       LET c == SceneOf(film', ev'.arg[1])
       IN \A p, n \in Range(film'.scenes) :
            (/\ IsPredecessor(film', p, c) /\ IsSuccessor(film', n, c)
             /\ QGe(QSub(n.positionSec, SceneEnd(p)),
                    QAdd(c.lengthSec, QI(2))))
              => /\ QGe(c.positionSec, SceneEnd(p))
                 /\ QLe(SceneEnd(c), n.positionSec)]_vars

(* ===================== properties: save / open project ================= *)
FilmCleared(f) == f.scenes = <<>> /\ f.notes = <<>>
MusicCleared(m) ==
  /\ m.notes = <<>> /\ m.lyricsClips = <<>> /\ m.markers = <<>>
  /\ m.loopA = NoNum /\ m.loopB = NoNum
FilmSame(f, g) ==
  /\ f.scenes = g.scenes /\ f.notes = g.notes
  /\ f.zoom = g.zoom /\ f.panX = g.panX /\ f.playheadSec = g.playheadSec
MusicSameSaved(m, n) ==
  /\ m.notes = n.notes
  /\ m.zoom = n.zoom /\ m.panX = n.panX /\ m.playheadSec = n.playheadSec
MusicSame(m, n) ==
  /\ MusicSameSaved(m, n)
  /\ m.lyricsClips = n.lyricsClips /\ m.markers = n.markers
  /\ m.loopA = n.loopA /\ m.loopB = n.loopB

(* C12: in each editor, opening the project that makeProject produced,
   after the editor was cleared, reproduces the entity model and view the
   project was made from: scenes and notes (film); notes, lyric clips,
   markers and loop bounds (music); zoom, panX and playheadSec (both). *)
C12_ProjectRoundTrip ==
  [][ev'.op = "openSaved" =>
       /\ (page = "film" /\ FilmCleared(film)) => FilmSame(film', calc.at)
       /\ (page = "music" /\ MusicCleared(music)) => MusicSame(music', calc.at)]_vars

(* what does come back: the film model and view from any state, and the
   music notes, zoom, panX and playheadSec *)
ProjectRoundTripSaved ==
  [][ev'.op = "openSaved" =>
       /\ page = "film" => FilmSame(film', calc.at)
       /\ page = "music" => MusicSameSaved(music', calc.at)]_vars

(* a film project with a scene, an image card and a note was exported, the
   editor emptied, and the project opened again *)
FilmRoundTripDone ==
  /\ page = "film" /\ ev.op = "openSaved"
  /\ Len(film.scenes) > 0 /\ Len(film.notes) > 0
  /\ budget <= MaxProjectEvents - 4


(* C13: loadProject of a file with a wrong kind, a wrong version or a
   required collection that is not an array fails and leaves the editor as
   it was: zoom, panX, playheadSec, project name and every collection. *)
C13_RejectedLoadChangesNothing ==
  [][ev'.op = "openBad" => (film' = film /\ music' = music)]_vars

(* a rejected file was offered to an editor holding entities *)
C13_Witness ==
  /\ ev.op = "openBad"
  /\ \/ page = "film" /\ ev.arg[3] = FALSE /\ Len(film.scenes) > 0
     \/ page = "music" /\ ev.arg[3] = FALSE /\ Len(music.markers) > 0

(* ===================== properties: script import ======================= *)
(* C14: when a script import completes, whatever gestures ran while it was
   pending, the scenes list becomes the imported list (one scene per parsed
   scene, not collapsed, without image, coloured palette[i mod 8]) and the
   notes list empty in the same step, no earlier scene surviving; and a
   pointer gesture that was in progress when the import completed alters no
   imported scene. *)
C14_ImportReplacesAtomically ==
  [][/\ ev'.op = "importDone" =>
          LET parsed == layoutScenes(ev'.arg)
          IN /\ Len(film'.scenes) = Len(parsed)
             /\ \A i \in DOMAIN parsed :
                  /\ film'.scenes[i].originalSceneNumber = parsed[i].index
                  /\ film'.scenes[i].positionSec = parsed[i].positionSec
                  /\ ~film'.scenes[i].collapsed
                  /\ ~film'.scenes[i].imageUrl
                  /\ film'.scenes[i].imageMeta = NoRec
                  /\ film'.scenes[i].color = (i - 1) % 8
                  /\ ~HasScene(film, film'.scenes[i].id)
             /\ film'.notes = <<>>
     /\ (calc.carried /\ ev'.op \in {"onMouseMove", "endDrag"}) =>
          (film'.scenes = film.scenes /\ film'.notes = film.notes)]_vars

(* the completion step alone: the lists are replaced in one step *)
ImportStepReplaces ==
  [][ev'.op = "importDone" =>
       /\ Len(film'.scenes) = Len(ev'.arg)
       /\ \A i \in DOMAIN film'.scenes : ~HasScene(film, film'.scenes[i].id)
       /\ film'.notes = <<>>]_vars

(* a scene drag (not a resize) carried over an import alters nothing *)
CarriedSceneDragAltersNothing ==
  [][(calc.carried /\ ev'.op = "onMouseMove" /\ film.dragMode = "scene") =>
       film'.scenes = film.scenes]_vars

(* an import of nine scenes completed during a scene drag over an editor
   holding scenes and notes, and the pointer moved afterwards *)
ImportDuringSceneDrag ==
  /\ ev.op = "onMouseMove" /\ calc.carried /\ film.dragMode = "scene"
  /\ Len(film.scenes) = 9 /\ film.notes = <<>>

(* ========================= properties: clampPanX ======================= *)
ValidClampInput ==
  /\ QGt(music.duration, Zero) /\ QGt(music.canvasW, Zero)
  /\ QGe(calc.z, QI(Music_MIN_ZOOM)) /\ QLe(calc.z, QI(Music_MAX_ZOOM))
ViewSec == QDiv(music.canvasW, calc.z)

(* C15: with a track of duration D > 0, a viewport W > 0 and a zoom z within
   [MIN_ZOOM, MAX_ZOOM], clampPanX(p, z) lies within
   [-(max(0, D - W/z)) * z, 0], and is 0 when the track is not longer than
   the viewport (D <= W/z). *)
C15_ClampPanXRange ==
  (calc.fn # "none" /\ ValidClampInput) =>
    /\ QLe(calc.once, Zero)
    /\ QGe(calc.once, QNeg(QMul(QMax(Zero, QSub(music.duration, ViewSec)), calc.z)))
    /\ QLe(music.duration, ViewSec) => calc.once = Zero

(* a pan left of the range was clamped to its lower end, on a track longer
   than the viewport *)
C15_Witness ==
  /\ calc.fn = "once" /\ ValidClampInput /\ QGt(music.duration, ViewSec)
  /\ calc.p = QI(-5000) /\ calc.once = QSub(music.canvasW, QMul(music.duration, calc.z))

(* C16: clampPanX is idempotent: clampPanX(clampPanX(p, z), z) =
   clampPanX(p, z) for every p and z. *)
C16_ClampPanXIdempotent ==
  calc.fn = "twice" => calc.twice = calc.once

(* the second call was made on a value the first call had changed *)
C16_Witness ==
  /\ calc.fn = "twice" /\ calc.once # calc.p /\ QLt(calc.once, Zero)

(* ========================= properties: vertical pan ==================== *)
(* the content height: the lowest note bottom plus 60 px, at least 1200 px *)
ContentHeightAtLeast(h) ==
  /\ QGe(h, QI(1200))
  /\ \A i \in DOMAIN music.notes :
       QGe(h, QAdd(QAdd(music.notes[i].yPx,
                        IF music.notes[i].collapsed THEN QI(18) ELSE music.notes[i].h),
                   QI(60)))
PanYWithin(h) ==
  /\ QLe(music.panY, Zero)
  /\ QGe(music.panY, QMin(Zero, QSub(music.viewportH, h)))

(* C17: in the music editor panY lies within
   [min(0, viewportHeight - contentHeight), 0] in every reachable state:
   after wheel scrolls, mouse and touch pans, vertical-minimap jumps, note
   additions and deletions, viewport resizes, reset view and new canvas. *)
C17_PanYWithinBounds ==
  page = "music" =>
    /\ ContentHeightAtLeast(contentHeightPx(music))
    /\ PanYWithin(contentHeightPx(music))

(* the note that made the content tall was deleted while the view was
   scrolled below the 1200 px baseline, and panY was brought back *)
C17_Witness ==
  /\ page = "music" /\ ev.op = "onDeleteSelected" /\ music.notes = <<>>
  /\ music.panY = QSub(music.viewportH, QI(1200)) /\ QLt(music.panY, Zero)

(* ========================= properties: lyric clips ===================== *)
(* C18: every lyric clip that has an endSec has endSec > timestampSec, in
   every reachable state of the music editor, after aligned-lyrics imports
   and lyric-clip drags. *)
C18_LyricEndAfterStart ==
  page = "music" =>
    \A i \in DOMAIN music.lyricsClips :
      music.lyricsClips[i].endSec # NoNum
        => QGt(music.lyricsClips[i].endSec, music.lyricsClips[i].timestampSec)

(* the import alone gives every clip an end after its start *)
ImportedLyricEndAfterStart ==
  [][ev'.op = "addAlignedLyricsAsClips" =>
       \A i \in DOMAIN music'.lyricsClips :
         QGt(music'.lyricsClips[i].endSec, music'.lyricsClips[i].timestampSec)]_vars

(* ==================== properties: mapping with zoom 0 ================== *)
(* C19: xToTime, cssToWorldTime and cssToSec called with zoom = 0 return
   the x they were given (identity fallback), not a non-finite value. *)
C19_ZeroZoomIdentity ==
  (calc.fn # "none" /\ calc.zoom = Zero) => calc.back = calc.x

(* with a zoom other than 0 the mappings return a finite time *)
NonZeroZoomFinite ==
  (calc.fn # "none" /\ calc.zoom # Zero) => IsFinite(calc.back)

(* ======================= properties: grid step ========================= *)
Ladder ==
  {Q(1, 4), Q(1, 2), QI(1), QI(2), QI(3), QI(5), QI(10), QI(15), QI(30),
   QI(60), QI(120), QI(300), QI(600)}

(* the steps of the ladder whose spacing on screen, step * zoom, is at least
   120 px *)
WideEnough(z) == {s \in Ladder : QLe(QI(120), QMul(s, z))}

IsSmallestWideEnough(step, z) ==
  /\ step \in WideEnough(z)
  /\ \A s \in WideEnough(z) : QLe(step, s)

(* two calls in a row of the same editor's function, the second at a zoom
   that is not lower, do not return a larger step *)
StepNotIncreased ==
  (calc.fn # "none" /\ calc.prevFn = calc.fn /\ QLe(calc.prevZoom, calc.zoom))
    => QLe(calc.step, calc.prevStep)

(* C20: for every zoom in [MIN_ZOOM, MAX_ZOOM], pickGridStepSec of either
   editor returns the smallest step of the ladder 0.25, 0.5, 1, 2, 3, 5, 10,
   15, 30, 60, 120, 300, 600 whose spacing step * zoom is at least 120 px,
   and so the step never increases when the zoom increases. *)
C20_GridStepSmallestOfLadder ==
  /\ calc.fn # "none" => IsSmallestWideEnough(calc.step, calc.zoom)
  /\ StepNotIncreased

(* the film editor's function does return the smallest wide-enough step of
   that ladder *)
FilmGridStepSmallestOfLadder ==
  calc.fn = "film" => IsSmallestWideEnough(calc.step, calc.zoom)

(* in both editors the step never increases when the zoom increases *)
GridStepMonotone == StepNotIncreased

(* the music editor's function returns a step of its own, shorter ladder,
   which is wide enough but not always the smallest of the 13-step ladder *)
MusicGridStepWideEnough ==
  calc.fn = "music" => QLe(QI(120), QMul(calc.step, calc.zoom))

(* ======================= properties: script import ===================== *)
ParsedSequential(p) ==
  /\ \A i \in DOMAIN p :
       /\ p[i].index = i
       /\ QLe(QI(10), p[i].estLengthSec) /\ QLe(p[i].estLengthSec, QI(180))
  /\ Len(p) > 0 => p[1].positionSec = Zero
  /\ \A i \in 1..(Len(p) - 1) :
       p[i + 1].positionSec =
         QAdd(p[i].positionSec, QAdd(p[i].estLengthSec, QI(1)))

ImportedNormalised(scenes, p) ==
  /\ Len(scenes) = Len(p)
  /\ \A i \in DOMAIN scenes :
       /\ scenes[i].originalSceneNumber = p[i].index
       /\ scenes[i].positionSec = p[i].positionSec
       /\ scenes[i].lengthSec = QMax(QI(1), MathRound(p[i].estLengthSec))

(* C21: the scenes parseScript and importFdxToScenes return carry the
   indexes 1..n in order and lie one after the other, the first at 0 and
   each next at the previous position plus the previous estimated length
   plus 1, every estimated length within 10..180; and once the film editor
   has imported them with lengthSec = max(1, round(estLengthSec)), no scene
   reaches into the next one. *)
C21_ImportedScenesSequential ==
  /\ calc.fn \in {"parsed", "imported"} => ParsedSequential(calc.parsed)
  /\ calc.fn = "imported" =>
       /\ ImportedNormalised(film.scenes, calc.parsed)
       /\ \A i \in 1..(Len(film.scenes) - 1) :
            QLe(QAdd(film.scenes[i].positionSec, film.scenes[i].lengthSec),
                film.scenes[i + 1].positionSec)

(* three scenes imported, one estimate rounded up (10.5 to 11) and one
   capped at 180 *)
C21_Witness ==
  /\ calc.fn = "imported" /\ Len(film.scenes) = 3
  /\ \E i \in 1..2 : /\ calc.parsed[i].estLengthSec = Q(21, 2)
                     /\ film.scenes[i].lengthSec = QI(11)
  /\ \E i \in 1..3 : calc.parsed[i].estLengthSec = QI(180)

(* ======================= properties: formatTime ======================== *)
IsWhole(a) == IsFinite(a) /\ Den(a) = 1

TwoDigits(n) == <<DigitChar(n \div 10), DigitChar(n % 10)>>

Decimal(n) ==
  LET RECURSIVE D(_)
      D(k) == IF k = 0 THEN <<>> ELSE Append(D(k \div 10), DigitChar(k % 10))
  IN IF n = 0 THEN <<"0">> ELSE D(n)

(* C22: for a whole number of seconds sec >= 0, formatTime gives m:ss with
   m = floor(sec / 60) and ss = sec mod 60 on two digits when sec < 3600, and
   h:mm:ss otherwise (3661 gives 1:01:01); a negative or non-finite input
   gives 0:00. *)
C22_FormatTime ==
  calc.fn = "formatTime" =>
    LET n == Num(calc.sec)
    IN /\ (IsWhole(calc.sec) /\ n >= 0 /\ n < 3600) =>
            calc.out = Decimal(n \div 60) \o <<":">> \o TwoDigits(n % 60)
       /\ (IsWhole(calc.sec) /\ n >= 3600) =>
            calc.out = Decimal(n \div 3600) \o <<":">>
                       \o TwoDigits((n % 3600) \div 60) \o <<":">>
                       \o TwoDigits(n % 60)
       /\ calc.sec = QI(3661) =>
            calc.out = <<"1", ":", "0", "1", ":", "0", "1">>
       /\ (~IsFinite(calc.sec) \/ QLt(calc.sec, Zero)) =>
            calc.out = <<"0", ":", "0", "0">>

C22_Witness ==
  /\ calc.fn = "formatTime" /\ calc.sec = QI(3661)
  /\ calc.out = <<"1", ":", "0", "1", ":", "0", "1">>


(* ======================= properties: pointer gestures ================== *)
(* the kinds of thing that differ between two states of an editor *)
MusicKindsChanged(m, n) ==
  {k \in {"loop", "marker", "pan", "lyric", "note"} :
     \/ k = "loop" /\ (n.loopA # m.loopA \/ n.loopB # m.loopB)
     \/ k = "marker" /\ n.markers # m.markers
     \/ k = "pan" /\ (n.panX # m.panX \/ n.panY # m.panY)
     \/ k = "lyric" /\ n.lyricsClips # m.lyricsClips
     \/ k = "note" /\ n.notes # m.notes}

SceneField(f, i, k) ==
  CASE k = "image" -> f.scenes[i].imageMeta
    [] k = "length" -> f.scenes[i].lengthSec
    [] OTHER -> <<f.scenes[i].positionSec, f.scenes[i].yPx>>

ScenesDiffer(f, g, k) ==
  \/ Len(f.scenes) # Len(g.scenes)
  \/ \E i \in DOMAIN f.scenes : SceneField(f, i, k) # SceneField(g, i, k)

FilmKindsChanged(f, g) ==
  {k \in {"pan", "marquee", "note", "image", "position", "resize"} :
     \/ k = "pan" /\ g.panX # f.panX
     \/ k = "marquee" /\ (g.marquee # f.marquee \/ g.multiSelIds # f.multiSelIds)
     \/ k = "note" /\ g.notes # f.notes
     \/ k = "image" /\ ScenesDiffer(f, g, "image")
     \/ k = "position" /\ ScenesDiffer(f, g, "position")
                       /\ ~ScenesDiffer(f, g, "length")
     \/ k = "resize" /\ ScenesDiffer(f, g, "length")}

IsMove == ev'.op = "onMouseMove"

(* C23: between a pointer-down and the next pointer-up a pointer-move
   changes at most one of loop bound, marker, pan, lyric clip, note in the
   music editor and at most one of pan, marquee selection, note, image card,
   scene position, scene resize in the film editor; while a marker or a loop
   handle is dragged, panX and panY stay as they are. *)
C23_OneDragKindPerMove ==
  [][IsMove =>
       /\ Cardinality(MusicKindsChanged(music, music')) <= 1
       /\ Cardinality(FilmKindsChanged(film, film')) <= 1
       /\ (music.loopDrag # "none" \/ music.draggingMarkerId # NoId) =>
            (music'.panX = music.panX /\ music'.panY = music.panY)]_vars

(* the film editor's half of it *)
FilmOneDragKindPerMove ==
  [][IsMove => Cardinality(FilmKindsChanged(film, film')) <= 1]_vars

(* in the music editor the pan stays while a marker or a loop handle is
   dragged *)
MarkerAndLoopDragKeepPan ==
  [][(IsMove /\ (music.loopDrag # "none" \/ music.draggingMarkerId # NoId)) =>
       (music'.panX = music.panX /\ music'.panY = music.panY)]_vars

(* the music editor's move handler itself writes one kind only; a second
   kind changes when the content height has changed and panY is clamped
   again *)
MusicMoveHandlerOneKind ==
  [][(IsMove /\ page = "music") =>
       LET p == ev'.arg[1]
           h == Music_onMouseMove(music, QI(p[1]), QI(p[2]),
                                  QSub(QI(p[1]), calc.at[1]),
                                  QSub(QI(p[2]), calc.at[2]), ev'.arg[2])
       IN /\ Cardinality(MusicKindsChanged(music, h)) <= 1
          /\ music' = panYEffect(h)]_vars


(* what one pointer-move to the position of the last move event would have
   stored, had it been the first move after the pointer-down *)
FilmSingleMove ==
  LET p == ev'.arg
  IN onMouseMove(calc.start, QI(p[1]), QI(p[2]), Zero)

MusicSingleMove ==
  LET p == ev'.arg[1]
  IN Music_onMouseMove(calc.start, QI(p[1]), QI(p[2]), Zero, Zero, ev'.arg[2])

(* the scenes a film drag is moving: the scene under the pointer-down, or
   the whole multi-selection when that scene belongs to it *)
DraggedScenes(f) ==
  IF f.dragMode = "image" THEN {f.activeImageSceneId}
  ELSE IF f.dragMode = "scene" /\ f.activeSceneId \in f.multiSelIds
    THEN f.multiSelIds
  ELSE IF f.dragMode \in {"scene", "resizeL", "resizeR"} THEN {f.activeSceneId}
  ELSE {}

FilmDragFromSnapshot ==
  (IsMove /\ page = "film"
     /\ film.dragMode \in {"scene", "note", "image", "resizeL", "resizeR"}) =>
    /\ film'.notes = FilmSingleMove.notes
    /\ \A i \in DOMAIN film.scenes :
         film.scenes[i].id \in DraggedScenes(film) =>
           film'.scenes[i] = FilmSingleMove.scenes[i]

MusicDragFromSnapshot ==
  (IsMove /\ page = "music" /\ music.loopDrag = "none"
     /\ music.draggingMarkerId = NoId /\ music.dragMode \in {"note", "lyric"}) =>
    (music'.notes = MusicSingleMove.notes
       /\ music'.lyricsClips = MusicSingleMove.lyricsClips)

(* C24: during a drag the positions a pointer-move writes depend on the
   pre-drag snapshot and the pointer's position only, not on the earlier
   moves of the drag: film scene drags (the group drag of a multi-selection
   included), film note and image drags, film resizes, music note and lyric
   drags. *)
C24_DragFromSnapshot ==
  [][FilmDragFromSnapshot /\ MusicDragFromSnapshot]_vars

(* it holds for the drag of one scene that is not part of a multi-selection,
   for the resized scene of a resize and for film note and image drags *)
SingleDragFromSnapshot ==
  [][(film.dragMode \in {"note", "image", "resizeL", "resizeR"}
        \/ (film.dragMode = "scene" /\ film.activeSceneId \notin film.multiSelIds))
       => FilmDragFromSnapshot]_vars

(* the film editor's drags alone; the music editor's drags alone *)
FilmDragsFromSnapshot == [][FilmDragFromSnapshot]_vars
MusicDragsFromSnapshot == [][MusicDragFromSnapshot]_vars

(* music drags during which the Shift key is held throughout or not at
   all *)
MusicDragFromSnapshotSameShift ==
  [][Cardinality(calc'.keys) <= 1 => MusicDragFromSnapshot]_vars

(* ======================= properties: notes and scenes ================== *)
NotesAttached(scenes, notes) ==
  \A i \in DOMAIN notes : \E j \in DOMAIN scenes : scenes[j].id = notes[i].sceneId

(* C25: in the film editor every note's sceneId identifies a scene of the
   scene list, in every state reached by add scene, add note to selected
   scene, reattach note, delete scene, delete note, script import and
   undo. *)
C25_NotesReferToScenes == NotesAttached(film.scenes, film.notes)

(* the lists and every history entry hold attached notes only *)
AllAttached(f) ==
  /\ NotesAttached(f.scenes, f.notes)
  /\ \A i \in DOMAIN f.history :
       NotesAttached(f.history[i].scenes, f.history[i].notes)

(* the one step that attaches a note to a scene that is not in the list: Add
   Note while the selected scene id is that of a scene an undo or an import
   has removed *)
AddNoteToMissingScene ==
  ev'.op = "addNoteToSelectedScene" /\ ~HasScene(film, film.selectedSceneId)

NotesStayAttachedOtherwise ==
  [][(AllAttached(film) /\ ~AddNoteToMissingScene) => AllAttached(film')]_vars


(* ======================= properties: resize ============================ *)
ActiveScene(f) == SceneOf(f, f.activeSceneId)

(* a resize drag is under way and the pointer has moved *)
Resizing(mode) ==
  /\ page = "film" /\ calc.phase = "down" /\ calc.moved
  /\ film.dragMode = mode /\ film.activeSceneId # NoId
  /\ HasScene(film, film.activeSceneId)

(* the pointer's travel since the pointer-down, in seconds *)
DragDeltaSec == QDiv(QSub(calc.at[1], film.dragStart.cx), film.zoom)

(* C26: a left-edge resize keeps the scene's right edge where it was: at
   every pointer-move positionSec + lengthSec of the resized scene equals
   its pre-drag positionSec + lengthSec, with snapping on or off, also when
   the minimum length or the position floor 0 is reached. *)
C26_LeftResizeKeepsRightEdge ==
  Resizing("resizeL") =>
    QAdd(ActiveScene(film).positionSec, ActiveScene(film).lengthSec)
      = QAdd(film.sceneStartSnapshot.positionSec,
             film.sceneStartSnapshot.lengthSec)

(* the right edge does stay while snapping is off, the length is above the
   minimum and the position above 0 *)
LeftResizeKeepsRightEdgeUnclamped ==
  (Resizing("resizeL") /\ ~film.snapEnabled
     /\ QGe(QAdd(film.sceneStartSnapshot.positionSec, DragDeltaSec), Zero)
     /\ QGe(QSub(film.sceneStartSnapshot.lengthSec, DragDeltaSec),
            QI(SCENE_MIN_SEC))) =>
    QAdd(ActiveScene(film).positionSec, ActiveScene(film).lengthSec)
      = QAdd(film.sceneStartSnapshot.positionSec,
             film.sceneStartSnapshot.lengthSec)

LeftResizeUnclampedHappens ==
  /\ Resizing("resizeL") /\ ~film.snapEnabled
  /\ ActiveScene(film).positionSec # film.sceneStartSnapshot.positionSec
  /\ QGt(ActiveScene(film).lengthSec, QI(SCENE_MIN_SEC))


(* every scene that started at or after the resized scene's pre-drag right
   edge lies at its pre-drag position plus the change of the resized scene's
   length; f is the editor now, start the editor as the pointer-down left
   it *)
FollowersShifted(f, start) ==
  LET snap == start.sceneStartSnapshot
      oldEnd == QAdd(snap.positionSec, snap.lengthSec)
      deltaLen == QSub(SceneOf(f, start.activeSceneId).lengthSec, snap.lengthSec)
  IN \A i \in DOMAIN start.scenes :
       (start.scenes[i].id # start.activeSceneId
          /\ QGe(start.scenes[i].positionSec, oldEnd)) =>
         f.scenes[i].positionSec = QAdd(start.scenes[i].positionSec, deltaLen)

(* C27: at every pointer-move of a resize drag each scene that started at or
   after the resized scene's pre-drag right edge is at its own pre-drag
   position plus (current length - pre-drag length) of the resized scene,
   however many move events the drag consists of, growing or shrinking. *)
C27_ResizeShiftsFollowers ==
  (Resizing("resizeL") \/ Resizing("resizeR")) =>
    FollowersShifted(film, calc.start)

(* the first pointer-move of a resize drag with snapping off does shift the
   followers by the change of length *)
FirstResizeMoveShiftsFollowers ==
  [][(IsMove /\ page = "film" /\ ~calc.moved /\ ~film.snapEnabled
        /\ film.dragMode \in {"resizeL", "resizeR"})
       => FollowersShifted(film', calc.start)]_vars

FirstResizeMoveHappens ==
  /\ Resizing("resizeR") /\ ~film.snapEnabled
  /\ ActiveScene(film).lengthSec # film.sceneStartSnapshot.lengthSec
  /\ film.scenes[2].positionSec # calc.start.scenes[2].positionSec
  /\ FollowersShifted(film, calc.start)


(* the step is the click event that follows the pointer-up of a gesture in
   which the pointer-down started a drag and the pointer moved *)
ClickAfterDrag ==
  /\ ev'.op = "onClick" /\ calc.phase = "up" /\ calc.moved
  /\ \/ page = "film" /\ calc.start.dragMode # "none"
     \/ page = "music" /\ (calc.start.dragMode # "none"
                             \/ calc.start.loopDrag # "none"
                             \/ calc.start.draggingMarkerId # NoId)

FilmSelection(f) ==
  <<f.selectedSceneId, f.selectedNoteId, f.selectedImageSceneId, f.multiSelIds>>

MusicSelection(m) ==
  <<m.selectedNoteId, m.selectedLyricId, m.selectedMarkerId>>

(* C28: a pointer-down, pointer-moves that perform a drag, the pointer-up and
   the ensuing click leave playheadSec and the selection exactly as the drag
   left them, in both editors: the click's scrub and selection logic runs
   only when no drag occurred between the down and the up. *)
C28_ClickAfterDragIgnored ==
  [][ClickAfterDrag =>
       /\ film'.playheadSec = film.playheadSec
       /\ FilmSelection(film') = FilmSelection(film)
       /\ music'.playheadSec = music.playheadSec
       /\ MusicSelection(music') = MusicSelection(music)]_vars

(* the click after a drag leaves what the drag moved where the drag left it,
   and in the film editor it leaves the selection alone *)
ClickAfterDragKeepsContent ==
  [][ClickAfterDrag =>
       /\ film'.scenes = film.scenes /\ film'.notes = film.notes
       /\ FilmSelection(film') = FilmSelection(film)
       /\ music'.notes = music.notes /\ music'.lyricsClips = music.lyricsClips
       /\ music'.markers = music.markers
       /\ music'.loopA = music.loopA /\ music'.loopB = music.loopB]_vars

(* the click is not ignored after a drag: the pointer-up cleared the
   mouse-down flag the click tests *)
ClickAfterDragScrubs ==
  [][ClickAfterDrag =>
       /\ ~film.isMouseDown /\ ~music.isMouseDown
       /\ page = "film" => film'.playheadSec = QMax(Zero, cssToSec(film, calc.at[1]))
       /\ page = "music" =>
            music'.playheadSec =
              QMax(Zero, QDiv(QSub(calc.at[1], music.panX), music.zoom))]_vars


MusicClickAfterDragHappens ==
  /\ page = "music" /\ ev.op = "onClick" /\ calc.moved
  /\ calc.start.dragMode = "note"
  /\ music.playheadSec # calc.start.playheadSec

FilmClickAfterDragHappens ==
  /\ page = "film" /\ ev.op = "onClick" /\ calc.moved
  /\ calc.start.dragMode = "scene"
  /\ film.playheadSec # calc.start.playheadSec


(* how many of the three music selections are set *)
SelectedCount(m) ==
  Cardinality({k \in {"note", "lyric", "marker"} :
                 \/ k = "note" /\ m.selectedNoteId # NoId
                 \/ k = "lyric" /\ m.selectedLyricId # NoId
                 \/ k = "marker" /\ m.selectedMarkerId # NoId})

(* C29: in the music editor at most one of selectedNoteId, selectedLyricId
   and selectedMarkerId is set after any sequence of pointer-down, pointer-up
   and click events. *)
C29_OneMusicSelection ==
  page = "music" => SelectedCount(music) <= 1

(* a click changes the note and the lyric selection only *)
MusicClickSelectsNoteOrLyricOnly ==
  [][(page = "music" /\ ev'.op = "onClick") =>
       music'.selectedMarkerId = music.selectedMarkerId]_vars

(* no pointer-down, pointer-up or click clears the marker selection *)
MarkerSelectionNeverCleared ==
  page = "music" => music.selectedMarkerId # NoId

ThreeSelectedHappens ==
  page = "music" /\ SelectedCount(music) = 3


(* a marquee drag is under way and the pointer has moved *)
Marqueeing ==
  /\ page = "film" /\ calc.phase = "down" /\ calc.moved
  /\ film.dragMode = "marquee" /\ film.marquee # NoRec

(* the scenes whose rectangle of height h(s) overlaps the marquee *)
UnderMarquee(f, full) ==
  LET mx0 == QMin(f.marquee.x0, f.marquee.x1)
      mx1 == QMax(f.marquee.x0, f.marquee.x1)
      my0 == QMin(f.marquee.y0, f.marquee.y1)
      my1 == QMax(f.marquee.y0, f.marquee.y1)
      h(s) == IF full THEN QI(sceneHeight(s))
              ELSE QI(IF s.collapsed THEN Film_COLLAPSED_H ELSE ROW_HEIGHT - 6)
  IN {f.scenes[i].id : i \in
        {j \in DOMAIN f.scenes :
           rectsOverlap(mx0, my0, QSub(mx1, mx0), QSub(my1, my0),
                        secToCss(f, f.scenes[j].positionSec),
                        QAdd(f.scenes[j].yPx, QI(4)),
                        QMul(f.scenes[j].lengthSec, f.zoom),
                        h(f.scenes[j]))}}

(* C30: after each pointer-move of a marquee drag the multi-selected set is
   exactly the set of scenes whose on-screen rectangle, the one hitSceneAt
   tests (height COLLAPSED_H when collapsed, else ROW_HEIGHT - 6 + FOOTER_H),
   overlaps the marquee rectangle. *)
C30_MarqueeSelectsSceneRects ==
  Marqueeing => film.multiSelIds = UnderMarquee(film, TRUE)

(* the multi-selected set is the set of scenes whose rectangle without the
   footer overlaps the marquee, and those are among the scenes of C30 *)
MarqueeSelectsSceneBodies ==
  Marqueeing =>
    /\ film.multiSelIds = UnderMarquee(film, FALSE)
    /\ film.multiSelIds \subseteq UnderMarquee(film, TRUE)

MarqueeSelectsHappens ==
  Marqueeing /\ film.multiSelIds # {} /\ film.multiSelIds # {1, 2}


(* the editors the pointer gestures start from are editors the program
   reaches: each equals the result of the handlers applied from the loaded
   project *)
GestureFixturesReached ==
  /\ FilmGMulti = FilmGMultiByGesture
  /\ MusicG = MusicGByGesture
  /\ MusicGScrolled = MusicGScrolledByWheel


(* every scene but the one under the pointer keeps its position in the step *)
OthersStay ==
  \A i \in DOMAIN film.scenes :
    film.scenes[i].id # film.activeSceneId =>
      film'.scenes[i].positionSec = film.scenes[i].positionSec

(* C31: a marquee multi-selection applies to exactly one subsequent scene
   drag: once a scene drag has ended after the marquee, a later drag of a
   scene moves only the scene under the pointer and leaves every other
   scene's positionSec unchanged, until a new marquee is drawn. *)
C31_MultiSelectionOneDrag ==
  [][(page = "film" /\ ev'.op = "onMouseMove" /\ film.dragMode = "scene"
        /\ calc.ended >= 1) => OthersStay]_vars

(* the multi-selection changes only when a marquee is started or moved: no
   scene drag, pointer-up, pointer-leave or click clears it *)
MultiSelectionOutlivesDrags ==
  [][film'.multiSelIds # film.multiSelIds =>
       \/ ev'.op = "onMouseDown" /\ film'.dragMode = "marquee"
       \/ ev'.op = "onMouseMove" /\ film.dragMode = "marquee"]_vars

(* a drag of a scene outside the multi-selection moves that scene only *)
UnselectedSceneDragsAlone ==
  [][(page = "film" /\ ev'.op = "onMouseMove" /\ film.dragMode = "scene"
        /\ film.activeSceneId \notin film.multiSelIds) => OthersStay]_vars

SecondGroupDragHappens ==
  /\ page = "film" /\ calc.phase = "down" /\ calc.moved /\ calc.ended >= 1
  /\ film.dragMode = "scene" /\ film.multiSelIds = {1, 2}
  /\ \A i \in DOMAIN film.scenes :
       film.scenes[i].positionSec # calc.start.scenes[i].positionSec


(* ==================== properties: the note drag policy ================== *)
MusicNoteOf(m, nid) == CHOOSE n \in Range(m.notes) : n.id = nid

(* a mouse drag of a note is under way and the pointer has moved *)
NoteDragging ==
  /\ page = "music" /\ calc.phase = "down" /\ calc.moved
  /\ music.dragMode = "note" /\ music.activeNoteId # NoId

(* the note under drag keeps the pre-drag value of the field the policy
   shouldMoveTimestamp leaves alone *)
NoteDragFollows(shouldMoveTimestamp) ==
  LET n == MusicNoteOf(music, music.activeNoteId)
      s == MusicNoteOf(calc.start, music.activeNoteId)
  IN IF shouldMoveTimestamp THEN n.xOffsetPx = s.xOffsetPx
     ELSE n.timestampSec = s.timestampSec

(* C32: in a mouse drag of a note the effective policy is dragMovesTimestamp
   inverted by the modifier key and is fixed for the whole drag: when it is
   off timestampSec keeps its pre-drag value, when it is on xOffsetPx keeps
   its pre-drag value; within one drag never both timestampSec and xOffsetPx
   differ from their pre-drag values. *)
C32_NoteDragOnePolicy ==
  NoteDragging => (NoteDragFollows(TRUE) \/ NoteDragFollows(FALSE))

(* it holds of the drags during which the Shift key is held throughout or
   not at all, with the policy dragMovesTimestamp inverted by Shift *)
NoteDragOnePolicySameShift ==
  NoteDragging =>
    \A shift \in BOOLEAN :
      calc.keys = {shift} =>
        NoteDragFollows(IF shift THEN ~music.dragMovesTimestamp
                        ELSE music.dragMovesTimestamp)

NoteDragShiftHappens ==
  /\ NoteDragging /\ calc.keys = {TRUE} /\ ~music.dragMovesTimestamp
  /\ ~NoteDragFollows(FALSE)


(* ===================== properties: touch sequences ===================== *)
(* the step is the landing of a second touch during a one-finger note drag *)
SecondTouchInNoteDrag ==
  ev'.op = "onTouchStart" /\ Len(calc'.fingers) = 2
    /\ music.touchDrag.mode = "note"

(* the step is the first touch-move after one of two fingers has lifted,
   by delta from the remaining finger's position *)
FirstMoveAfterLift == ev'.op = "onTouchMove" /\ calc.lifted

MoveDelta(i) == QSub(calc'.fingers[1][i], calc.fingers[1][i])

(* C33: when a second touch lands during a one-finger note drag the note
   drag is cancelled (later touch-moves no longer change that note) and
   pinch starts; when one of two touches lifts the mode becomes pan with the
   last-touch reference at the remaining finger, so that the first following
   touch-move changes panX and panY by that move's own delta only, clamped
   to the pan range (no jump). *)
C33_TouchTransitions ==
  /\ [][SecondTouchInNoteDrag =>
          music'.touchMode = "pinch" /\ music'.touchDrag.mode = "none"]_vars
  /\ [](calc.cancelled # NoRec => calc.cancelled \in Range(music.notes))
  /\ [](calc.lifted =>
          /\ music.touchMode = "pan"
          /\ music.touchLast = [x |-> calc.fingers[1][1], y |-> calc.fingers[1][2]])
  /\ [][FirstMoveAfterLift =>
          /\ music'.panX = clampPanX(music, QAdd(music.panX, MoveDelta(1)), music.zoom)
          /\ music'.panY = clampPanY(music, QAdd(music.panY, MoveDelta(2)),
                                     music.viewportH)
          /\ music'.zoom = music.zoom /\ music'.notes = music.notes]_vars

(* a note drag was interrupted by a second touch, a finger lifted, and the
   first move of the remaining finger panned by its own delta, away from the
   place where the gesture began *)
C33_Witness ==
  /\ page = "music" /\ calc.cancelled # NoRec /\ ev.op = "onTouchMove"
  /\ Len(calc.fingers) = 1 /\ ~calc.lifted /\ music.touchMode = "pan"
  /\ music.panX # Zero /\ music.zoom # QI(100)
  /\ calc.cancelled.xOffsetPx # Zero \/ calc.cancelled.timestampSec # QI(2)


(* ====================== properties: pointer released =================== *)
(* no button is held: the last pointer event was not a pointer-down or a
   move of a drag *)
Released == calc.phase \in {"idle", "up"}

FilmDragCleared(f) ==
  /\ ~f.isMouseDown /\ f.dragMode = "none" /\ f.marquee = NoRec
  /\ f.activeSceneId = NoId /\ f.sceneStartSnapshot = NoRec
  /\ f.activeNoteId = NoId /\ f.noteStartSnapshot = NoRec
  /\ f.activeImageSceneId = NoId /\ f.imageStartSnapshot = NoRec

(* the music editor's session references but the lyric snapshot *)
MusicDragCleared(m) ==
  /\ ~m.isMouseDown /\ m.dragMode = "none"
  /\ m.activeNoteId = NoId /\ m.noteStart = NoRec
  /\ m.loopDrag = "none" /\ m.draggingMarkerId = NoId

HoverMove == ev'.op = "onMouseMove" /\ Released

(* C34: after pointer-up or pointer-leave, whether or not a drag was in
   progress, the drag mode is none and every drag-session reference (active
   entity ids, pre-drag snapshots of note, scene, image and lyric, loop-handle
   and marker drag markers, marquee) is cleared, and pointer-moves arriving
   before the next pointer-down change no entity and no pan or zoom value. *)
C34_ReleaseClearsDragSession ==
  /\ [](Released =>
          /\ FilmDragCleared(film)
          /\ MusicDragCleared(music) /\ music.lyricStart = NoRec)
  /\ [][HoverMove => film' = film /\ music' = music]_vars

(* all of it holds but for the lyric snapshot of the music editor *)
ReleaseClearsAllButLyricStart ==
  /\ [](Released => FilmDragCleared(film) /\ MusicDragCleared(music))
  /\ [][HoverMove => film' = film /\ music' = music]_vars

HoverAfterLyricDragHappens ==
  /\ page = "music" /\ Released /\ ev.op = "onMouseMove"
  /\ music.lyricStart # NoRec
  /\ music.lyricsClips # calc.start.lyricsClips


(* ==================== properties: right-edge resize ==================== *)
(* the scenes that started before the resized scene's pre-drag right edge *)
StartedBeforeEdge ==
  LET snap == film.sceneStartSnapshot
  IN {i \in DOMAIN calc.start.scenes :
        /\ calc.start.scenes[i].id # film.activeSceneId
        /\ QLt(calc.start.scenes[i].positionSec,
               QAdd(snap.positionSec, snap.lengthSec))}

(* C35: a right-edge resize changes only lengths and followers: the resized
   scene's positionSec and yPx keep their pre-drag values, and every scene
   that starts before the resized scene's pre-drag right edge is left
   entirely unchanged. *)
C35_RightResizeFrame ==
  Resizing("resizeR") =>
    /\ ActiveScene(film).positionSec = film.sceneStartSnapshot.positionSec
    /\ ActiveScene(film).yPx = film.sceneStartSnapshot.yPx
    /\ ActiveScene(film).positionSec =
         SceneOf(calc.start, film.activeSceneId).positionSec
    /\ \A i \in StartedBeforeEdge : film.scenes[i] = calc.start.scenes[i]
    /\ film.notes = calc.start.notes

(* the right edge of scene 2 was dragged and its length changed, with
   scene 1 starting before that edge *)
C35_Witness ==
  /\ Resizing("resizeR") /\ film.activeSceneId = 2
  /\ ActiveScene(film).lengthSec # film.sceneStartSnapshot.lengthSec
  /\ StartedBeforeEdge # {}

(* the right edge of scene 1 was dragged and the follower moved *)
RightResizeMovesFollower ==
  /\ Resizing("resizeR") /\ film.activeSceneId = 1
  /\ film.scenes[2].positionSec # calc.start.scenes[2].positionSec


(* ======================= properties: scene regions ===================== *)
(* the step is a pointer-down at (x, y) that reaches the scene test: no note
   and no image card lies under the point, and scene s does *)
DownOnScene(s, x, y) ==
  /\ ev'.op = "onMouseDown" /\ ev'.arg = <<x, y>> /\ page = "film"
  /\ hitNoteAt(film, QI(x), QI(y)) = NoRec
  /\ hitImageAt(film, QI(x), QI(y)) = NoRec
  /\ hitSceneAt(film, QI(x), QI(y)) # NoRec
  /\ hitSceneAt(film, QI(x), QI(y)).scene = s

InLeftBand(s, x) == QLe(QI(x), QAdd(secToCss(film, s.positionSec), QI(HANDLE_W)))
InRightBand(s, x) ==
  QGe(QI(x), QSub(QAdd(secToCss(film, s.positionSec), QMul(s.lengthSec, film.zoom)),
                  QI(HANDLE_W)))
InChevron(s, x, y) ==
  LET x0 == QAdd(secToCss(film, s.positionSec), QI(Film_TOGGLE_PAD))
      y0 == QAdd(s.yPx, QI(10))
  IN /\ QLe(x0, QI(x)) /\ QLe(QI(x), QAdd(x0, QI(Film_TOGGLE_SIZE)))
     /\ QLe(y0, QI(y)) /\ QLe(QI(y), QAdd(y0, QI(Film_TOGGLE_SIZE)))

(* what the pointer-down did: started a drag of scene s in a mode, or
   toggled the chevron of s and started no drag *)
StartsDrag(s, mode) ==
  /\ film'.dragMode = mode /\ film'.activeSceneId = s.id /\ film'.isMouseDown
  /\ film'.scenes = film.scenes
TogglesChevron(s) ==
  /\ film'.dragMode = "none" /\ ~film'.isMouseDown /\ film'.activeSceneId = NoId
  /\ SceneOf(film', s.id).collapsed = ~s.collapsed

(* C36: within a scene's rectangle the sub-region is resolved in the order
   left edge band, right edge band, chevron box, body: a pointer-down within
   HANDLE_W of the scene's left edge always starts a left resize, also where
   that band overlaps the chevron box; a pointer-down that does hit the
   chevron toggles collapsed and starts no drag. *)
C36_RegionOrder ==
  [][\A x \in RegionXs, y \in RegionYs, s \in Range(film.scenes) :
       DownOnScene(s, x, y) =>
         IF InLeftBand(s, x) THEN StartsDrag(s, "resizeL")
         ELSE IF InRightBand(s, x) THEN StartsDrag(s, "resizeR")
         ELSE IF InChevron(s, x, y) THEN TogglesChevron(s)
         ELSE StartsDrag(s, "scene")]_vars

(* the order the pointer-down follows: chevron box, left edge band, right
   edge band, body *)
RegionOrderChevronFirst ==
  [][\A x \in RegionXs, y \in RegionYs, s \in Range(film.scenes) :
       DownOnScene(s, x, y) =>
         IF InChevron(s, x, y) THEN TogglesChevron(s)
         ELSE IF InLeftBand(s, x) THEN StartsDrag(s, "resizeL")
         ELSE IF InRightBand(s, x) THEN StartsDrag(s, "resizeR")
         ELSE StartsDrag(s, "scene")]_vars

(* a pointer-down where the left band and the chevron box overlap toggled
   the chevron *)
ChevronInLeftBandHappens ==
  /\ page = "film" /\ ev.op = "onMouseDown" /\ ev.arg = <<6, 24>>
  /\ film.dragMode = "none" /\ film.scenes[1].collapsed

(* ================= properties: note stacking order ==================== *)
NotesOf(f, sid) == {i \in DOMAIN f.notes : f.notes[i].sceneId = sid}

DistinctOrders(f) ==
  \A i, j \in DOMAIN f.notes :
    (i # j /\ f.notes[i].sceneId = f.notes[j].sceneId)
      => f.notes[i].order # f.notes[j].order

(* 0-based place of note id in the stack drawn under its scene *)
StackPlace(f, id) ==
  LET IsId(n) == n.id = id
      note == Find(IsId, f.notes)
  IN findIndex(notesByScene(f.notes, note.sceneId), IsId)

StackIds(f, sid) ==
  LET arr == notesByScene(f.notes, sid)
  IN [i \in DOMAIN arr |-> arr[i].id]

MoveUpOnePlace ==
  (ev'.op = "moveNoteUp" /\ StackPlace(film, film.selectedNoteId) > 0)
    => /\ StackPlace(film', film.selectedNoteId)
            = StackPlace(film, film.selectedNoteId) - 1
       /\ moveNoteDown(film').notes = film.notes

(* C37: the notes attached to one scene always have pairwise distinct order
   values, so moveNoteUp on a note that is not first in its stack moves it
   exactly one place earlier and moveNoteDown then restores the stacking *)
C37_DistinctNoteOrders ==
  /\ [](page = "film" => DistinctOrders(film))
  /\ [][MoveUpOnePlace]_vars

(* add note and the two moves keep distinct orders distinct; only a delete
   or a reattach that leaves a gap below the top lets the next add or
   reattach reuse an order value *)
AddAndMoveKeepDistinct ==
  [][(ev'.op \in {"addNoteToSelectedScene", "moveNoteUp", "moveNoteDown"}
        /\ DistinctOrders(film)
        /\ \A i \in DOMAIN film.notes :
             film.notes[i].order < Cardinality(NotesOf(film, film.notes[i].sceneId)))
       => DistinctOrders(film')]_vars

(* where the orders are distinct the moves behave as the toolbar promises *)
MoveUpOnePlaceWhenDistinct ==
  [][DistinctOrders(film) => MoveUpOnePlace]_vars

DuplicateOrderHappens == page = "film" /\ ~DistinctOrders(film)

MoveUpHappens ==
  /\ ev.op = "moveNoteUp" /\ DistinctOrders(film)
  /\ StackPlace(film, film.selectedNoteId) = 0
  /\ Len(notesByScene(film.notes, 1)) = 2

(* ========================= properties: undo ============================ *)
Snapshot(f) == [scenes |-> f.scenes, notes |-> f.notes]

UndoStep ==
  /\ (ev'.op # "undo")
       => (\/ film'.history = film.history
           \/ film'.history = Append(film.history, Snapshot(film)))
  /\ (ev'.op = "undo" /\ Len(film.history) = 0) => (film' = film)
  /\ (ev'.op = "undo" /\ Len(film.history) > 0)
       => (/\ Snapshot(film') = film.history[Len(film.history)]
           /\ film'.history = SubSeq(film.history, 1, Len(film.history) - 1))

(* C38: undo restores the scene list and the note list together to the
   values they had when the most recent history entry was pushed and removes
   exactly that entry; with an empty history undo changes nothing.  Every
   entry is the pair of lists of the moment it was pushed, no step rewrites
   an entry, and undo puts the last entry back and drops it. *)
C38_UndoRestoresLastEntry == [][UndoStep]_vars

(* an undo that found a history entry and put back both lists at once *)
C38_Witness ==
  /\ ev.op = "undo" /\ calc.called /\ calc.depth > 0
  /\ Len(film.history) = calc.depth - 1
  /\ calc.scenes # film.scenes /\ calc.notes # film.notes

UndoOnEmptyHappens ==
  /\ ev.op = "undo" /\ calc.called /\ calc.depth = 0
  /\ Len(film.scenes) > 0

(* ==================== properties: horizontal pan range ================= *)
TrackLoaded(m) == m.duration # Zero /\ IsFinite(m.duration) /\ m.canvasW # Zero

PanXInRange(m) ==
  TrackLoaded(m) => (QLe(MusicMinPan(m, m.zoom), m.panX) /\ QLe(m.panX, Zero))

(* C39: in the music editor, with a loaded track of finite duration and a
   non-zero viewport width, panX lies within the clampPanX bounds for the
   current zoom in every reachable state *)
C39_PanXAlwaysClamped == page = "music" => PanXInRange(music)

(* every step but the toolbar's zoom slider takes a pan that is within the
   bounds of its zoom to a pan that is within the bounds of the new zoom *)
PanXClampedExceptBySlider ==
  [][(page = "music" /\ PanXInRange(music) /\ ev'.op # "setZoom")
       => PanXInRange(music')]_vars

(* the zoom slider moved while the view was panned: the pan is left beyond
   the bounds of the new zoom *)
SliderLeavesPanOutside ==
  /\ page = "music" /\ TrackLoaded(music) /\ ev.op = "setZoom"
  /\ QLt(music.panX, MusicMinPan(music, music.zoom))

(* ========================= properties: playback ======================== *)
Wrapped == page = "music" /\ ev.op = "tick" /\ calc.sought
AdvancedPlaying ==
  /\ ev.op = "tick" /\ ~calc.sought /\ music.isPlaying
  /\ QGt(music.playheadSec, calc.loop.a)

(* C40: while the music editor is playing with looping enabled and
   loopB > loopA, each time the playhead reaches loopB it is set back to
   loopA and then keeps advancing on the following frames with isPlaying
   still true *)
C40_LoopKeepsAdvancing == Wrapped ~> AdvancedPlaying

(* the frame that reaches loopB puts the playhead on loopA, requests no
   further frame and leaves isPlaying true; the stopped source's 'ended'
   event is queued *)
WrapStopsFrames ==
  Wrapped => /\ music.playheadSec = calc.loop.a
             /\ music.isPlaying /\ ~calc.raf /\ calc.ended > 0

(* until a frame reaches loopB, a frame is requested whenever isPlaying is
   true, and playback runs to the end of the track *)
FramesRunWithoutWrap ==
  [][(music.isPlaying /\ calc.raf /\ ev'.op = "tick" /\ ~calc'.sought)
       => (calc'.raf /\ music'.isPlaying
           /\ QGe(music'.playheadSec, music.playheadSec))]_vars

PlaybackEndsWithoutLoop ==
  (music.isPlaying /\ ~calc.loop.enabled) ~> ~music.isPlaying

WrapHappens == Wrapped /\ music.playheadSec = QI(1)

====
